---- MODULE Spec2Model ----
(***************************************************************************)
(* ComparaInvest: the projection engine of src/src/App.tsx                 *)
(* (calculateSimulations and its helpers) and the React state of App that  *)
(* feeds it and shows its results.                                         *)
(*                                                                         *)
(* Numbers.  The program computes in IEEE doubles.  The model computes in  *)
(* decimal fixed point with round-to-nearest after every multiplication    *)
(* and division, as a double rounds after every operation:                 *)
(*   - a rate, a fraction or a percentage is an integer count of 1/SCALE   *)
(*     (0.015 is 15000, 1.5 (%) is 1500000);                               *)
(*   - an amount of money is an integer count of cents.                    *)
(* Mul and Div work limb by limb so that no intermediate value leaves the  *)
(* 32-bit range of the checker.  The arithmetic is written as functions,   *)
(* which take their arguments by value as the program does.                *)
(***************************************************************************)
EXTENDS Integers, Sequences, FiniteSets, Bags, TLC

SCALE == 10^6
LIMB == 10^3
CENTS == 10 * 10

Abs(x) == IF x < 0 THEN -x ELSE x
Sgn(x) == IF x < 0 THEN -1 ELSE 1

\* const v = e; body: e is evaluated once, whatever the number of uses of v.
Let(e, body(_)) == CHOOSE r \in {body(v) : v \in {e}} : TRUE

\* a * b / SCALE for a, b >= 0, rounded to nearest.
MulNN(a, b) ==
  LET a1 == a \div LIMB
      a0 == a % LIMB
      b1 == b \div LIMB
      b0 == b % LIMB
  IN  a1 * b1 + ((a1 * b0 + a0 * b1 + LIMB \div 2) + (a0 * b0) \div LIMB) \div LIMB

\* The product of two doubles one of which is scaled by SCALE.
Mul[a \in Int, b \in Int] == Sgn(a) * Sgn(b) * MulNN(Abs(a), Abs(b))

\* The digits of (r / b) after the point, taken one at a time.
DivDigits[r \in Nat, b \in Nat, k \in Nat, acc \in Nat] ==
  IF k = 0 THEN acc + (IF 2 * r >= b THEN 1 ELSE 0)
  ELSE DivDigits[(r * 10) % b, b, k - 1, acc * 10 + (r * 10) \div b]

\* The quotient of two doubles of the same unit, scaled by SCALE and rounded
\* to nearest.
Div[a \in Int, b \in Int] ==
  Sgn(a) * Sgn(b) * DivDigits[Abs(a) % Abs(b), Abs(b), 6, Abs(a) \div Abs(b)]

\* a / n for a plain number n > 0 (a keeps its unit), rounded to nearest.
DivBy[a \in Int, n \in Nat] == Sgn(a) * ((2 * Abs(a) + n) \div (2 * n))

\* Math.pow(x, n) for a whole exponent n >= 0, x scaled by SCALE.
MathPow[x \in Int, n \in Nat] ==
  IF n = 0 THEN SCALE
  ELSE IF n = 1 THEN x
  ELSE Let(MathPow[x, n \div 2],
           LAMBDA h : IF n % 2 = 0 THEN Mul[h, h] ELSE Mul[Mul[h, h], x])

\* The largest y in lo..hi with MathPow[y, n] <= x (lo is such a y).
RootSearch[x \in Int, n \in Nat, lo \in Int, hi \in Int] ==
  IF lo >= hi THEN lo
  ELSE LET mid == (lo + hi + 1) \div 2
       IN  IF MathPow[mid, n] <= x THEN RootSearch[x, n, mid, hi]
           ELSE RootSearch[x, n, lo, mid - 1]

\* Math.pow(x, 1 / n) for a whole n >= 1 and x > 0, x scaled by SCALE.
MathRoot[x \in Int, n \in Nat] ==
  IF n = 1 THEN x
  ELSE IF x >= SCALE
       THEN RootSearch[x, n, SCALE, SCALE + (x - SCALE) \div n + 1]
       ELSE RootSearch[x, n, x, SCALE]

(***************************************************************************)
(* The two values of a double that are not finite.  No operation of the    *)
(* program throws on them: a division by 0 and a power with an infinite    *)
(* exponent return one of them, and every operation on one of them returns *)
(* one of them.  They are modelled by two integers beyond every finite     *)
(* value the model computes.                                               *)
(***************************************************************************)
NaN == -(2^30)
Infinity == 2^30

isFinite(x) == x \notin {NaN, Infinity, -Infinity}

\* x handed to an operation that keeps a non-finite operand as it is
\* (x * 100, x - 1, Math.pow(1 + x, 12)): body(x) for a finite x.
Finite(x, body(_)) == IF isFinite(x) THEN body(x) ELSE x

\* a / b of two doubles of the same unit, b >= 0: 0 / 0 is NaN.
Quotient(a, b) ==
  IF ~isFinite(a) THEN a
  ELSE IF b # 0 THEN Div[a, b]
  ELSE IF a = 0 THEN NaN
  ELSE IF a > 0 THEN Infinity
  ELSE -Infinity

\* a / n for a plain number n >= 0 (a keeps its unit).
QuotientBy(a, n) ==
  IF ~isFinite(a) THEN a
  ELSE IF n # 0 THEN DivBy[a, n]
  ELSE IF a = 0 THEN NaN
  ELSE IF a > 0 THEN Infinity
  ELSE -Infinity

\* Math.pow(x, 1 / n) for a whole n >= 0 and x >= 0: 1 / 0 is Infinity, and
\* Math.pow(1, Infinity) is NaN.
Root(x, n) ==
  IF ~isFinite(x) THEN x
  ELSE IF n # 0 THEN MathRoot[x, n]
  ELSE IF x = SCALE THEN NaN
  ELSE IF x > SCALE THEN Infinity
  ELSE 0

(***************************************************************************)
(* The types (App.tsx 8-52).                                               *)
(***************************************************************************)
MonthlyDetail ==
  [month : Nat, principal : Int, grossProfit : Int, taxRate : Int,
   taxAmount : Int, netProfit : Int, accumulated : Int]

EvolutionPoint == [month : Nat, value : Int]

(***************************************************************************)
(* The calculation functions (App.tsx 54-139).  The closures of            *)
(* calculateSimulations take its params p as their first argument.         *)
(***************************************************************************)
annualToMonthlyCompound[annualRate \in Int] ==
  MathRoot[SCALE + DivBy[annualRate, 100], 12] - SCALE

monthlyToAnnualCompound[monthlyRate \in Int] ==
  (MathPow[SCALE + monthlyRate, 12] - SCALE) * 100

monthlyToAnnualSimple[monthlyRate \in Int] == monthlyRate * 12 * 100

\* getTaxRate with the brackets closed on the wrong side.
getTaxRateStrict(days) ==
  IF days < 180 THEN 225000
  ELSE IF days < 360 THEN 200000
  ELSE IF days < 720 THEN 175000
  ELSE 150000

getTaxRate(days) ==
  IF days <= 180 THEN 225000
  ELSE IF days <= 360 THEN 200000
  ELSE IF days <= 720 THEN 175000
  ELSE 150000

periodTaxRate(p) == getTaxRate(p.months * 30)

cdiMonthly(p) == annualToMonthlyCompound[p.cdiAnnual]

\* The guard answering 100% of a CDI of 0.
calculatePercentOfCDIFullAtZero(p, annualRateGross) ==
  IF p.cdiAnnual = 0 THEN 100 * SCALE
  ELSE Div[annualRateGross, p.cdiAnnual] * 100

calculatePercentOfCDI(p, annualRateGross) ==
  IF p.cdiAnnual = 0 THEN 0
  ELSE Div[annualRateGross, p.cdiAnnual] * 100

\* The gross-up taken as a surcharge instead of a division.
calculateGrossUpSurcharge(p, exemptPercentOfCDI) ==
  Mul[exemptPercentOfCDI, SCALE + periodTaxRate(p)]

calculateGrossUp(p, exemptPercentOfCDI) ==
  Div[exemptPercentOfCDI, SCALE - periodTaxRate(p)]

\* The running totals and lists of the loop of calculateWithMonthlyPayout.
PayoutTotals ==
  [totalGrossProfit : Int, totalTax : Int, totalNetProfit : Int,
   details : Seq(MonthlyDetail), evolution : Seq(EvolutionPoint)]

\* The pass with the net profit so far reinvested in the principal.
PayoutStepReinvesting(principal, monthlyRate, hasTax, month, acc) ==
  LET days == month * 30
      monthTaxRate == IF hasTax THEN getTaxRate(days) ELSE 0
      grossProfit == Mul[principal + acc.totalNetProfit, monthlyRate]
      taxAmount == Mul[grossProfit, monthTaxRate]
      netProfit == grossProfit - taxAmount
      totalNetProfit == acc.totalNetProfit + netProfit
  IN  [totalGrossProfit |-> acc.totalGrossProfit + grossProfit,
       totalTax |-> acc.totalTax + taxAmount,
       totalNetProfit |-> totalNetProfit,
       details |-> Append(acc.details,
                     [month |-> month,
                      principal |-> principal,
                      grossProfit |-> grossProfit,
                      taxRate |-> monthTaxRate * 100,
                      taxAmount |-> taxAmount,
                      netProfit |-> netProfit,
                      accumulated |-> totalNetProfit]),
       evolution |-> Append(acc.evolution,
                       [month |-> month, value |-> principal + totalNetProfit])]

\* The pass taxed at the lowest bracket whatever the month.
PayoutStepLowestBracket(principal, monthlyRate, hasTax, month, acc) ==
  LET monthTaxRate == IF hasTax THEN 150000 ELSE 0
      grossProfit == Mul[principal, monthlyRate]
      taxAmount == Mul[grossProfit, monthTaxRate]
      netProfit == grossProfit - taxAmount
      totalNetProfit == acc.totalNetProfit + netProfit
  IN  [totalGrossProfit |-> acc.totalGrossProfit + grossProfit,
       totalTax |-> acc.totalTax + taxAmount,
       totalNetProfit |-> totalNetProfit,
       details |-> Append(acc.details,
                     [month |-> month,
                      principal |-> principal,
                      grossProfit |-> grossProfit,
                      taxRate |-> monthTaxRate * 100,
                      taxAmount |-> taxAmount,
                      netProfit |-> netProfit,
                      accumulated |-> totalNetProfit]),
       evolution |-> Append(acc.evolution,
                       [month |-> month, value |-> principal + totalNetProfit])]

\* One pass of the loop of calculateWithMonthlyPayout: month `month` is
\* added to the running totals, the details and the evolution of acc.
PayoutStep(principal, monthlyRate, hasTax, month, acc) ==
  LET days == month * 30
      monthTaxRate == IF hasTax THEN getTaxRate(days) ELSE 0
      grossProfit == Mul[principal, monthlyRate]
      taxAmount == Mul[grossProfit, monthTaxRate]
      netProfit == grossProfit - taxAmount
      totalNetProfit == acc.totalNetProfit + netProfit
  IN  [totalGrossProfit |-> acc.totalGrossProfit + grossProfit,
       totalTax |-> acc.totalTax + taxAmount,
       totalNetProfit |-> totalNetProfit,
       details |-> Append(acc.details,
                     [month |-> month,
                      principal |-> principal,
                      grossProfit |-> grossProfit,
                      taxRate |-> monthTaxRate * 100,
                      taxAmount |-> taxAmount,
                      netProfit |-> netProfit,
                      accumulated |-> totalNetProfit]),
       evolution |-> Append(acc.evolution,
                       [month |-> month, value |-> principal + totalNetProfit])]

\* The return statement with the gross total short of the principal.
PayoutReturnProfitOnly(principal, monthlyRate, acc) ==
  [grossTotal |-> acc.totalGrossProfit,
   netTotal |-> principal + acc.totalNetProfit,
   totalTax |-> acc.totalTax,
   monthlyPayoutGross |-> Mul[principal, monthlyRate],
   details |-> acc.details,
   evolution |-> acc.evolution]

\* The return statement with the tax left out of the net total.
PayoutReturnUntaxed(principal, monthlyRate, acc) ==
  [grossTotal |-> principal + acc.totalGrossProfit,
   netTotal |-> principal + acc.totalGrossProfit,
   totalTax |-> acc.totalTax,
   monthlyPayoutGross |-> Mul[principal, monthlyRate],
   details |-> acc.details,
   evolution |-> acc.evolution]

\* The return statement of calculateWithMonthlyPayout.
PayoutReturn(principal, monthlyRate, acc) ==
  [grossTotal |-> principal + acc.totalGrossProfit,
   netTotal |-> principal + acc.totalNetProfit,
   totalTax |-> acc.totalTax,
   monthlyPayoutGross |-> Mul[principal, monthlyRate],
   details |-> acc.details,
   evolution |-> acc.evolution]

\* The loop of calculateWithMonthlyPayout from month `month` on, and the
\* return after the last month.
PayoutLoop[principal \in Int, months \in Nat, monthlyRate \in Int, hasTax \in BOOLEAN, month \in Nat, acc \in PayoutTotals] ==
  IF month > months THEN PayoutReturn(principal, monthlyRate, acc)
  ELSE PayoutLoop[principal, months, monthlyRate, hasTax, month + 1,
                  PayoutStep(principal, monthlyRate, hasTax, month, acc)]

\* The loop started at month 0 instead of month 1.
calculateWithMonthlyPayoutFromZero(p, monthlyRate, hasTax) ==
  PayoutLoop[p.principal, p.months, monthlyRate, hasTax, 0,
             [totalGrossProfit |-> 0, totalTax |-> 0, totalNetProfit |-> 0,
              details |-> <<>>,
              evolution |-> <<[month |-> 0, value |-> p.principal]>>]]

calculateWithMonthlyPayout(p, monthlyRate, hasTax) ==
  PayoutLoop[p.principal, p.months, monthlyRate, hasTax, 1,
             [totalGrossProfit |-> 0, totalTax |-> 0, totalNetProfit |-> 0,
              details |-> <<>>,
              evolution |-> <<[month |-> 0, value |-> p.principal]>>]]

\* The pass that charts the gross trajectory: no tax before maturity.
CompoundStepUntaxed(principal, monthlyRate, hasTax, month) ==
  Let(Mul[principal, MathPow[SCALE + monthlyRate, month]],
      LAMBDA gross : [month |-> month, value |-> gross])

\* The pass taxed at the bracket of the month after.
CompoundStepNextBracket(principal, monthlyRate, hasTax, month) ==
  Let(Mul[principal, MathPow[SCALE + monthlyRate, month]],
      LAMBDA gross :
        LET profit == gross - principal
            tax == IF hasTax THEN Mul[profit, getTaxRate((month + 1) * 30)] ELSE 0
        IN  [month |-> month, value |-> gross - tax])

\* One pass of the loop of calculateCompoundEvolution.
CompoundStep(principal, monthlyRate, hasTax, month) ==
  Let(Mul[principal, MathPow[SCALE + monthlyRate, month]],
      LAMBDA gross :
        LET profit == gross - principal
            tax == IF hasTax THEN Mul[profit, getTaxRate(month * 30)] ELSE 0
        IN  [month |-> month, value |-> gross - tax])

CompoundLoop[principal \in Int, months \in Nat, monthlyRate \in Int, hasTax \in BOOLEAN, month \in Nat, evolution \in Seq(EvolutionPoint)] ==
  IF month > months THEN evolution
  ELSE CompoundLoop[principal, months, monthlyRate, hasTax, month + 1,
                    Append(evolution, CompoundStep(principal, monthlyRate, hasTax, month))]

\* The evolution without its point of month 0.
calculateCompoundEvolutionFromOne(p, monthlyRate, hasTax) ==
  CompoundLoop[p.principal, p.months, monthlyRate, hasTax, 1, <<>>]

calculateCompoundEvolution(p, monthlyRate, hasTax) ==
  CompoundLoop[p.principal, p.months, monthlyRate, hasTax, 1,
               <<[month |-> 0, value |-> p.principal]>>]

\* The compound branch with the tax levied on the whole gross total.
CompoundTaxedOnGross(p, monthlyRate) ==
  Let(Mul[p.principal, MathPow[SCALE + monthlyRate, p.months]],
      LAMBDA gross :
        LET tax == Mul[gross, periodTaxRate(p)]
        IN  [grossTotal |-> gross,
             netTotal |-> gross - tax,
             totalTax |-> tax,
             monthlyPayoutGross |-> 0,
             details |-> <<>>,
             evolution |-> calculateCompoundEvolution(p, monthlyRate, TRUE)])

\* The compound branch written out for each taxed instrument: one tax at
\* maturity, with the bracket of the whole period.
CompoundTaxed(p, monthlyRate) ==
  Let(Mul[p.principal, MathPow[SCALE + monthlyRate, p.months]],
      LAMBDA gross :
        LET profit == gross - p.principal
            tax == Mul[profit, periodTaxRate(p)]
        IN  [grossTotal |-> gross,
             netTotal |-> gross - tax,
             totalTax |-> tax,
             monthlyPayoutGross |-> 0,
             details |-> <<>>,
             evolution |-> calculateCompoundEvolution(p, monthlyRate, TRUE)])

\* The compound branch of the tax-exempt instruments: no tax.
CompoundExempt(p, monthlyRate) ==
  Let(Mul[p.principal, MathPow[SCALE + monthlyRate, p.months]],
      LAMBDA gross :
        [grossTotal |-> gross,
         netTotal |-> gross,
         totalTax |-> 0,
         monthlyPayoutGross |-> 0,
         details |-> <<>>,
         evolution |-> calculateCompoundEvolution(p, monthlyRate, FALSE)])

\* if (globalPayoutMonthly) ... else ... of a taxed instrument.
TaxedAccrual(p, monthlyRate) ==
  IF p.globalPayoutMonthly
  THEN calculateWithMonthlyPayout(p, monthlyRate, TRUE)
  ELSE CompoundTaxed(p, monthlyRate)

\* The tax-exempt instruments accrued as the taxed ones are.
ExemptAccrualWithheld(p, monthlyRate) == TaxedAccrual(p, monthlyRate)

\* if (globalPayoutMonthly) ... else ... of a tax-exempt instrument.
ExemptAccrual(p, monthlyRate) ==
  IF p.globalPayoutMonthly
  THEN calculateWithMonthlyPayout(p, monthlyRate, FALSE)
  ELSE CompoundExempt(p, monthlyRate)

\* The net monthly rate as the plain average of the net return.
NetMonthlyRateAverage(p, netTotal) ==
  QuotientBy(Finite(Quotient(netTotal, p.principal), LAMBDA x : x - SCALE), p.months)

\* The net monthly rate answering 0 where it cannot be back-solved.
NetMonthlyRateGuarded(p, netTotal) ==
  IF p.principal = 0 \/ p.months = 0 THEN 0
  ELSE MathRoot[Div[netTotal, p.principal], p.months] - SCALE

\* Math.pow(netTotal / principal, 1 / months) - 1
NetMonthlyRate(p, netTotal) ==
  Let(Root(Quotient(netTotal, p.principal), p.months), LAMBDA root :
    Finite(root, LAMBDA x : x - SCALE))

(***************************************************************************)
(* calculateSimulations (App.tsx 66-480): one result per instrument.  The  *)
(* name of a result is modelled by the fixed part of its template.         *)
(***************************************************************************)
\* The annual rate compared with the CDI taken in the convention of the mode.
fundAnnualForCDIOfMode(p, fundMonthlyRate) ==
  IF p.globalPayoutMonthly
  THEN monthlyToAnnualSimple[fundMonthlyRate]
  ELSE monthlyToAnnualCompound[fundMonthlyRate]

\* The annual rate of the user fund compared with the CDI: always compound,
\* whatever the mode of p.
fundAnnualForCDI(p, fundMonthlyRate) == monthlyToAnnualCompound[fundMonthlyRate]

\* 1. Fundo do Usuario
fundSimulation(p) ==
  Let(DivBy[p.fundRateMonthly, 100], LAMBDA fundMonthlyRate :
  Let(TaxedAccrual(p, fundMonthlyRate), LAMBDA fundResult :
  Let(NetMonthlyRate(p, fundResult.netTotal), LAMBDA fundNetMonthlyRate :
    LET fundAnnualGross == IF p.globalPayoutMonthly
                           THEN monthlyToAnnualSimple[fundMonthlyRate]
                           ELSE monthlyToAnnualCompound[fundMonthlyRate]
        fundAnnualNet == IF p.globalPayoutMonthly
                         THEN Finite(fundNetMonthlyRate, LAMBDA x : monthlyToAnnualSimple[x])
                         ELSE Finite(fundNetMonthlyRate, LAMBDA x : monthlyToAnnualCompound[x])
    IN  [type |-> "fund",
         name |-> "PRE",
         grossTotal |-> fundResult.grossTotal,
         taxAmount |-> fundResult.totalTax,
         taxRate |-> periodTaxRate(p) * 100,
         netTotal |-> fundResult.netTotal,
         netReturnPercent |->
       Finite(Quotient(fundResult.netTotal - p.principal, p.principal), LAMBDA x : x * 100),
         monthlyReturnPercentOfCDI |->
           calculatePercentOfCDI(p, fundAnnualForCDI(p, fundMonthlyRate)),
         monthlyPayoutGross |-> fundResult.monthlyPayoutGross,
         monthlyPayoutNet |-> IF p.globalPayoutMonthly
                              THEN QuotientBy(fundResult.netTotal - p.principal, p.months)
                              ELSE 0,
         monthlyRateGross |-> fundMonthlyRate * 100,
         monthlyRateNet |-> Finite(fundNetMonthlyRate, LAMBDA x : x * 100),
         annualRateGross |-> fundAnnualGross,
         annualRateNet |-> fundAnnualNet,
         grossUp |-> 0,
         isUserFund |-> TRUE,
         monthlyDetails |-> fundResult.details,
         evolutionData |-> fundResult.evolution])))

\* The result of a taxed market instrument with the annual rates following
\* the mode, as those of the user fund do.
TaxedResultFollowingMode(p, type, name, monthly, percentOfCDI, annualGross) ==
  Let(TaxedAccrual(p, monthly), LAMBDA res :
  Let(NetMonthlyRate(p, res.netTotal), LAMBDA netMonthlyRate :
    [type |-> type,
     name |-> name,
     grossTotal |-> res.grossTotal,
     taxAmount |-> res.totalTax,
     taxRate |-> periodTaxRate(p) * 100,
     netTotal |-> res.netTotal,
     netReturnPercent |->
       Finite(Quotient(res.netTotal - p.principal, p.principal), LAMBDA x : x * 100),
     monthlyReturnPercentOfCDI |-> percentOfCDI,
     monthlyPayoutGross |-> res.monthlyPayoutGross,
     monthlyPayoutNet |-> IF p.globalPayoutMonthly
                          THEN QuotientBy(res.netTotal - p.principal, p.months)
                          ELSE 0,
     monthlyRateGross |-> monthly * 100,
     monthlyRateNet |-> Finite(netMonthlyRate, LAMBDA x : x * 100),
     annualRateGross |-> IF p.globalPayoutMonthly
                         THEN monthlyToAnnualSimple[monthly]
                         ELSE annualGross,
     annualRateNet |-> IF p.globalPayoutMonthly
                       THEN Finite(netMonthlyRate, LAMBDA x : monthlyToAnnualSimple[x])
                       ELSE Finite(netMonthlyRate, LAMBDA x : monthlyToAnnualCompound[x]),
     grossUp |-> 0,
     isUserFund |-> FALSE,
     monthlyDetails |-> res.details,
     evolutionData |-> res.evolution]))

\* The result pushed for a taxed market instrument (CDB, Pre-fixado, IPCA+,
\* Fundos): the accrual of the mode, the back-solved net monthly rate and
\* its annualization, which these four always take compound.
TaxedResult(p, type, name, monthly, percentOfCDI, annualGross) ==
  Let(TaxedAccrual(p, monthly), LAMBDA res :
  Let(NetMonthlyRate(p, res.netTotal), LAMBDA netMonthlyRate :
    [type |-> type,
     name |-> name,
     grossTotal |-> res.grossTotal,
     taxAmount |-> res.totalTax,
     taxRate |-> periodTaxRate(p) * 100,
     netTotal |-> res.netTotal,
     netReturnPercent |->
       Finite(Quotient(res.netTotal - p.principal, p.principal), LAMBDA x : x * 100),
     monthlyReturnPercentOfCDI |-> percentOfCDI,
     monthlyPayoutGross |-> res.monthlyPayoutGross,
     monthlyPayoutNet |-> IF p.globalPayoutMonthly
                          THEN QuotientBy(res.netTotal - p.principal, p.months)
                          ELSE 0,
     monthlyRateGross |-> monthly * 100,
     monthlyRateNet |-> Finite(netMonthlyRate, LAMBDA x : x * 100),
     annualRateGross |-> annualGross,
     annualRateNet |-> Finite(netMonthlyRate, LAMBDA x : monthlyToAnnualCompound[x]),
     grossUp |-> 0,
     isUserFund |-> FALSE,
     monthlyDetails |-> res.details,
     evolutionData |-> res.evolution]))

\* The CDB reported with a gross-up, as the tax-exempt instruments are.
cdbSimulationWithGrossUp(p) ==
  Let(Mul[cdiMonthly(p), DivBy[p.cdbPercentOfCDI, 100]], LAMBDA cdbMonthly :
    [TaxedResult(p, "cdb", "CDB", cdbMonthly,
                 p.cdbPercentOfCDI, monthlyToAnnualCompound[cdbMonthly])
       EXCEPT !.grossUp = calculateGrossUp(p, p.cdbPercentOfCDI)])

\* The CDB with its percentage of the CDI recomputed from its annual rate.
cdbSimulationRecomputed(p) ==
  Let(Mul[cdiMonthly(p), DivBy[p.cdbPercentOfCDI, 100]], LAMBDA cdbMonthly :
  Let(monthlyToAnnualCompound[cdbMonthly], LAMBDA cdbAnnualGross :
    TaxedResult(p, "cdb", "CDB", cdbMonthly,
                calculatePercentOfCDI(p, cdbAnnualGross), cdbAnnualGross)))

\* 2. CDB
cdbSimulation(p) ==
  Let(Mul[cdiMonthly(p), DivBy[p.cdbPercentOfCDI, 100]], LAMBDA cdbMonthly :
    TaxedResult(p, "cdb", "CDB", cdbMonthly,
                p.cdbPercentOfCDI, monthlyToAnnualCompound[cdbMonthly]))

\* 3. LCI
lciSimulation(p) ==
  Let(Mul[cdiMonthly(p), DivBy[p.lciPercentOfCDI, 100]], LAMBDA lciMonthly :
  Let(ExemptAccrual(p, lciMonthly), LAMBDA lciResult :
  Let(monthlyToAnnualCompound[lciMonthly], LAMBDA lciAnnualGross :
    [type |-> "lci",
     name |-> "LCI/LCA",
     grossTotal |-> lciResult.grossTotal,
     taxAmount |-> 0,
     taxRate |-> 0,
     netTotal |-> lciResult.netTotal,
     netReturnPercent |->
       Finite(Quotient(lciResult.netTotal - p.principal, p.principal), LAMBDA x : x * 100),
     monthlyReturnPercentOfCDI |-> p.lciPercentOfCDI,
     monthlyPayoutGross |-> lciResult.monthlyPayoutGross,
     monthlyPayoutNet |-> IF p.globalPayoutMonthly
                          THEN QuotientBy(lciResult.netTotal - p.principal, p.months)
                          ELSE 0,
     monthlyRateGross |-> lciMonthly * 100,
     monthlyRateNet |-> lciMonthly * 100,
     annualRateGross |-> lciAnnualGross,
     annualRateNet |-> lciAnnualGross,
     grossUp |-> calculateGrossUp(p, p.lciPercentOfCDI),
     isUserFund |-> FALSE,
     monthlyDetails |-> lciResult.details,
     evolutionData |-> lciResult.evolution])))

\* 4. Pre-fixado
preSimulation(p) ==
  Let(annualToMonthlyCompound[p.preFixedAnnual], LAMBDA preMonthly :
    TaxedResult(p, "cdb", "Pre-fixado", preMonthly,
                calculatePercentOfCDI(p, p.preFixedAnnual), p.preFixedAnnual))

\* 5. IPCA+
ipcaPlusSimulation(p) ==
  LET ipcaMonthly == annualToMonthlyCompound[p.ipcaAnnual]
      spreadMonthly == DivBy[DivBy[p.ipcaPlusAnnual, 100], 12]
  IN  Let(ipcaMonthly + spreadMonthly, LAMBDA ipcaPlusMonthly :
      Let(monthlyToAnnualCompound[ipcaPlusMonthly], LAMBDA ipcaPlusAnnualGross :
        TaxedResult(p, "cdb", "IPCA+", ipcaPlusMonthly,
                    calculatePercentOfCDI(p, ipcaPlusAnnualGross), ipcaPlusAnnualGross)))

\* 6. Fundo de Comparacao
compSimulation(p) ==
  Let(MathRoot[SCALE + DivBy[p.comparisonFund12MonthReturn, 100], 12] - SCALE,
      LAMBDA compMonthlyRate :
  Let(monthlyToAnnualCompound[compMonthlyRate], LAMBDA compAnnualGross :
    TaxedResult(p, "comparison", "Fundos", compMonthlyRate,
                calculatePercentOfCDI(p, compAnnualGross), compAnnualGross)))

\* 7. Poupanca
poupancaMonthly == 5000 + 1700

poupancaSimulation(p) ==
  Let(monthlyToAnnualCompound[poupancaMonthly], LAMBDA poupancaAnnualGross :
  Let(calculatePercentOfCDI(p, poupancaAnnualGross), LAMBDA poupancaPercentOfCDI :
  Let(ExemptAccrual(p, poupancaMonthly), LAMBDA poupancaResult :
    [type |-> "poupanca",
     name |-> "Poupanca",
     grossTotal |-> poupancaResult.grossTotal,
     taxAmount |-> 0,
     taxRate |-> 0,
     netTotal |-> poupancaResult.grossTotal,
     netReturnPercent |->
       Finite(Quotient(poupancaResult.grossTotal - p.principal, p.principal), LAMBDA x : x * 100),
     monthlyReturnPercentOfCDI |-> poupancaPercentOfCDI,
     monthlyPayoutGross |-> poupancaResult.monthlyPayoutGross,
     monthlyPayoutNet |-> poupancaResult.monthlyPayoutGross,
     monthlyRateGross |-> poupancaMonthly * 100,
     monthlyRateNet |-> poupancaMonthly * 100,
     annualRateGross |-> poupancaAnnualGross,
     annualRateNet |-> poupancaAnnualGross,
     grossUp |-> calculateGrossUp(p, poupancaPercentOfCDI),
     isUserFund |-> FALSE,
     monthlyDetails |-> poupancaResult.details,
     evolutionData |-> poupancaResult.evolution])))

\* The results with the peer fund pushed for a return of 0 as well.
pushedResultsNonNegative(p) ==
  <<fundSimulation(p), cdbSimulation(p), lciSimulation(p), preSimulation(p),
    ipcaPlusSimulation(p)>>
  \o (IF p.comparisonFund12MonthReturn >= 0 THEN <<compSimulation(p)>> ELSE <<>>)
  \o <<poupancaSimulation(p)>>

\* The results in the order they are pushed.
pushedResults(p) ==
  <<fundSimulation(p), cdbSimulation(p), lciSimulation(p), preSimulation(p),
    ipcaPlusSimulation(p)>>
  \o (IF p.comparisonFund12MonthReturn > 0 THEN <<compSimulation(p)>> ELSE <<>>)
  \o <<poupancaSimulation(p)>>

\* The comparator with its operands exchanged.
compareNetTotalAscending(a, b) == a.netTotal - b.netTotal

\* The comparator of the sort of otherFunds: negative when a goes first.
compareNetTotal(a, b) == b.netTotal - a.netTotal

\* Array.prototype.sort by compareNetTotal, which is stable: s[j] comes
\* before s[i] when the comparator puts it first, or puts neither first and
\* j < i.  The sorted array holds at k the element that k - 1 others precede.
SortByNetTotal(s) ==
  LET Before(j, i) == \/ compareNetTotal(s[j], s[i]) < 0
                      \/ compareNetTotal(s[j], s[i]) = 0 /\ j < i
      Rank(i) == 1 + Cardinality({j \in 1..Len(s) : Before(j, i)})
  IN  [k \in 1..Len(s) |-> s[CHOOSE i \in 1..Len(s) : Rank(i) = k]]

IsUser(r) == r.isUserFund
IsOther(r) == ~r.isUserFund

\* calculateSimulations without the partition: every result is ranked.
calculateSimulationsRankAll(p) ==
  Let(pushedResults(p), LAMBDA results : SortByNetTotal(results))

calculateSimulations(p) ==
  Let(pushedResults(p), LAMBDA results :
    LET userFund == SelectSeq(results, IsUser)
    IN  userFund \o Let(SelectSeq(results, IsOther), LAMBDA others : SortByNetTotal(others)))

(***************************************************************************)
(* The state of App (App.tsx 482-652).                                     *)
(*   params, results, ratesSource : the useState cells of the same names   *)
(*   effectPending : the effect on [params] (650-652) is scheduled and has *)
(*                   not run yet                                           *)
(*   callArg, callRet : the argument and the return value of the function  *)
(*                   applied by the specifications of single functions     *)
(*   loadingRates, ratesError, activeView, monthlyTablePage,               *)
(*   monthsPerPage, generatingPdf, isGeneratingReport, showPdfModal,       *)
(*   pdfOptions    : the useState cells of the same names                  *)
(*   fetches       : the invocations of fetchEconomicRates that have not   *)
(*                   finished, each at the await it is suspended on, with  *)
(*                   the locals it has assigned                            *)
(*   pdfRuns       : the invocations of generatePDF that have not          *)
(*                   finished, each at the await it is suspended on        *)
(***************************************************************************)
VARIABLES params, results, effectPending, ratesSource, callArg, callRet,
          loadingRates, ratesError, fetches,
          activeView, monthlyTablePage, monthsPerPage,
          generatingPdf, isGeneratingReport, showPdfModal, pdfOptions, pdfRuns

ratesVars == <<loadingRates, ratesError, fetches>>
pageVars == <<activeView, monthlyTablePage, monthsPerPage>>
pdfVars == <<generatingPdf, isGeneratingReport, showPdfModal, pdfOptions, pdfRuns>>

vars ==
  <<params, results, effectPending, ratesSource, callArg, callRet,
    ratesVars, pageVars, pdfVars>>

NoCall == [fn |-> "none"]

\* The longest holding period entered in the form.
MaxMonths == 25

\* The values entered in the form.  A percentage w.t is Pct(w, t).
Pct(whole, tenths) == whole * SCALE + tenths * (SCALE \div 10)

PrincipalChoices == {100000 * CENTS, 1000 * CENTS}
MonthsChoices == {1, 6, 12, 24, MaxMonths}
CdiChoices == {Pct(14, 9), 0}
FundNameChoices == {"Meu Fundo"}
FundRateChoices == {Pct(0, 5), Pct(1, 5)}
CdbPercentChoices == {Pct(105, 0)}
LciPercentChoices == {Pct(90, 0)}
PreFixedChoices == {Pct(12, 5)}
IpcaPlusChoices == {Pct(6, 0)}
ComparisonChoices == {-Pct(5, 0), 0, Pct(12, 5), Pct(15, 0)}

initialParams ==
  [principal |-> 100000 * CENTS,
   months |-> 24,
   cdiAnnual |-> Pct(14, 9),
   ipcaAnnual |-> 5170000,
   fundName |-> "Meu Fundo",
   fundRateMonthly |-> Pct(1, 5),
   cdbPercentOfCDI |-> Pct(105, 0),
   lciPercentOfCDI |-> Pct(90, 0),
   preFixedAnnual |-> Pct(12, 5),
   ipcaPlusAnnual |-> Pct(6, 0),
   comparisonFund12MonthReturn |-> Pct(15, 0),
   globalPayoutMonthly |-> TRUE]

IpcaChoices == {initialParams.ipcaAnnual}

\* The useState cells of the rates, the monthly table and the report as
\* the first render initializes them (App.tsx 501-506, 537-547, 946).
InitRates ==
  /\ loadingRates = TRUE
  /\ ratesError = "null"
  /\ fetches = EmptyBag

InitPage ==
  /\ activeView = "cards"
  /\ monthlyTablePage = 0
  /\ monthsPerPage = 12

InitPdf ==
  /\ generatingPdf = FALSE
  /\ isGeneratingReport = FALSE
  /\ showPdfModal = FALSE
  /\ pdfOptions = [includeCards |-> TRUE, includeChart |-> TRUE, includeTable |-> TRUE]
  /\ pdfRuns = EmptyBag

\* App as mounted: the first render has happened, the effects have not run.
Init ==
  /\ params = initialParams
  /\ results = <<>>
  /\ effectPending = TRUE
  /\ ratesSource = "api"
  /\ callArg = NoCall
  /\ callRet = NoCall
  /\ InitRates /\ InitPage /\ InitPdf

\* setParams(next) in an event handler: the next render shows next and
\* schedules the effect on [params].  React runs the effects of a commit
\* before it handles the next event, so a handler runs with no effect
\* pending.
setParams(next) ==
  /\ ~effectPending
  /\ params' = next
  /\ effectPending' = TRUE
  /\ UNCHANGED <<results, callArg, callRet, ratesVars, pageVars, pdfVars>>

SetFundName ==
  \E v \in FundNameChoices :
    /\ setParams([params EXCEPT !.fundName = v])
    /\ UNCHANGED ratesSource

SetFundRateMonthly ==
  \E v \in FundRateChoices :
    /\ setParams([params EXCEPT !.fundRateMonthly = v])
    /\ UNCHANGED ratesSource

SetPrincipal ==
  \E v \in PrincipalChoices :
    /\ setParams([params EXCEPT !.principal = v])
    /\ UNCHANGED ratesSource

SetMonths ==
  \E v \in MonthsChoices :
    /\ setParams([params EXCEPT !.months = v])
    /\ UNCHANGED ratesSource

SetCdiAnnual ==
  \E v \in CdiChoices :
    /\ setParams([params EXCEPT !.cdiAnnual = v])
    /\ ratesSource' = "manual"

SetCdbPercentOfCDI ==
  \E v \in CdbPercentChoices :
    /\ setParams([params EXCEPT !.cdbPercentOfCDI = v])
    /\ UNCHANGED ratesSource

SetLciPercentOfCDI ==
  \E v \in LciPercentChoices :
    /\ setParams([params EXCEPT !.lciPercentOfCDI = v])
    /\ UNCHANGED ratesSource

SetPreFixedAnnual ==
  \E v \in PreFixedChoices :
    /\ setParams([params EXCEPT !.preFixedAnnual = v])
    /\ UNCHANGED ratesSource

SetIpcaAnnual ==
  \E v \in IpcaChoices :
    /\ setParams([params EXCEPT !.ipcaAnnual = v])
    /\ ratesSource' = "manual"

SetIpcaPlusAnnual ==
  \E v \in IpcaPlusChoices :
    /\ setParams([params EXCEPT !.ipcaPlusAnnual = v])
    /\ UNCHANGED ratesSource

SetComparisonFund12MonthReturn ==
  \E v \in ComparisonChoices :
    /\ setParams([params EXCEPT !.comparisonFund12MonthReturn = v])
    /\ UNCHANGED ratesSource

ToggleGlobalPayoutMonthly ==
  /\ setParams([params EXCEPT !.globalPayoutMonthly = ~params.globalPayoutMonthly])
  /\ UNCHANGED ratesSource

\* The effect with the results array of calculateSimulations kept between
\* invocations: an invocation pushes onto what the last one left.
RecalculateEffectRetaining ==
  /\ effectPending
  /\ results' = Let(results \o pushedResults(params), LAMBDA all :
                  SelectSeq(all, IsUser) \o SortByNetTotal(SelectSeq(all, IsOther)))
  /\ effectPending' = FALSE
  /\ UNCHANGED <<params, ratesSource, callArg, callRet, ratesVars, pageVars, pdfVars>>

\* useEffect(() => setResults(calculateSimulations(params)), [params])
RecalculateEffect ==
  /\ effectPending
  /\ results' = calculateSimulations(params)
  /\ effectPending' = FALSE
  /\ UNCHANGED <<params, ratesSource, callArg, callRet, ratesVars, pageVars, pdfVars>>

Next ==
  \/ SetFundName
  \/ SetFundRateMonthly
  \/ SetPrincipal
  \/ SetMonths
  \/ SetCdiAnnual
  \/ SetCdbPercentOfCDI
  \/ SetLciPercentOfCDI
  \/ SetPreFixedAnnual
  \/ SetIpcaAnnual
  \/ SetIpcaPlusAnnual
  \/ SetComparisonFund12MonthReturn
  \/ ToggleGlobalPayoutMonthly
  \/ RecalculateEffect

Spec == Init /\ [][Next]_vars


(***************************************************************************)
(* getDifferential (App.tsx 654-663), a closure over results.              *)
(***************************************************************************)
Null == [null |-> TRUE]

\* getDifferential with the percentage taken of the result itself.
getDifferentialOfResult(res, result) ==
  LET found == SelectSeq(res, IsUser)
  IN  IF found = <<>> \/ result.isUserFund THEN Null
      ELSE LET userFund == Head(found)
               diff == result.netTotal - userFund.netTotal
               diffPercent == Div[diff, result.netTotal] * 100
           IN  [value |-> diff, percent |-> diffPercent]

getDifferential(res, result) ==
  LET found == SelectSeq(res, IsUser)
  IN  IF found = <<>> \/ result.isUserFund THEN Null
      ELSE LET userFund == Head(found)
               diff == result.netTotal - userFund.netTotal
               diffPercent == Div[diff, userFund.netTotal] * 100
           IN  [value |-> diff, percent |-> diffPercent]

\* Net totals of the result lists getDifferential is applied to.
NetTotalChoices ==
  {100000 * CENTS, 129025 * CENTS, 140000 * CENTS, 150000 * CENTS,
   160000 * CENTS, 175000 * CENTS + 50, 200000 * CENTS}

UserEntry(net) == [name |-> "PRE", netTotal |-> net, isUserFund |-> TRUE]
OtherEntry(net) == [name |-> "CDB", netTotal |-> net, isUserFund |-> FALSE]

\* A result list, with or without the user fund, and one of its entries
\* handed to getDifferential.
InitDiff ==
  /\ params = initialParams
  /\ effectPending = FALSE
  /\ ratesSource = "api"
  /\ callRet = NoCall
  /\ InitRates /\ InitPage /\ InitPdf
  /\ \E u \in NetTotalChoices, o \in NetTotalChoices :
       \/ /\ results = <<UserEntry(u), OtherEntry(o)>>
          /\ callArg \in {[fn |-> "getDifferential", result |-> UserEntry(u)],
                          [fn |-> "getDifferential", result |-> OtherEntry(o)]}
       \/ /\ results = <<OtherEntry(o)>>
          /\ callArg = [fn |-> "getDifferential", result |-> OtherEntry(o)]

CallGetDifferential ==
  /\ callArg.fn = "getDifferential"
  /\ callRet = NoCall
  /\ callRet' = [fn |-> "getDifferential",
                 value |-> getDifferential(results, callArg.result)]
  /\ UNCHANGED <<params, results, effectPending, ratesSource, callArg>>
  /\ UNCHANGED <<ratesVars, pageVars, pdfVars>>

NextDiff == CallGetDifferential

SpecDiff == InitDiff /\ [][NextDiff]_vars

(***************************************************************************)
(* getTaxRate applied to every holding period of 0..MaxDays days.          *)
(***************************************************************************)
MaxDays == 750

InitTax ==
  /\ params = initialParams
  /\ results = <<>>
  /\ effectPending = TRUE
  /\ ratesSource = "api"
  /\ callRet = NoCall
  /\ InitRates /\ InitPage /\ InitPdf
  /\ \E d \in 0..MaxDays : callArg = [fn |-> "getTaxRate", days |-> d]

CallGetTaxRate ==
  /\ callArg.fn = "getTaxRate"
  /\ callRet = NoCall
  /\ callRet' = [fn |-> "getTaxRate", value |-> getTaxRate(callArg.days)]
  /\ UNCHANGED <<params, results, effectPending, ratesSource, callArg>>
  /\ UNCHANGED <<ratesVars, pageVars, pdfVars>>

NextTax == CallGetTaxRate

SpecTax == InitTax /\ [][NextTax]_vars


(***************************************************************************)
(* annualToMonthlyCompound and monthlyToAnnualCompound (App.tsx 55-56)     *)
(* applied one after the other, to whole annual percentages of             *)
(* MinAnnual..MaxAnnual and to 5.17, and to monthly rates of 0% to 5%.     *)
(***************************************************************************)
MinAnnual == 1 - 100
MaxAnnual == 120

AnnualRateChoices ==
  {Pct(w, 0) : w \in MinAnnual..MaxAnnual} \cup {initialParams.ipcaAnnual}

MonthlyRateChoices == {k * 2500 : k \in 0..20}

\* The annual rate taken back from the monthly rate by the simple convention.
AnnualRoundTripSimple(annualRate) ==
  monthlyToAnnualSimple[annualToMonthlyCompound[annualRate]]

\* monthlyToAnnualCompound(annualToMonthlyCompound(annualRate))
AnnualRoundTrip(annualRate) ==
  monthlyToAnnualCompound[annualToMonthlyCompound[annualRate]]

\* annualToMonthlyCompound(monthlyToAnnualCompound(monthlyRate))
MonthlyRoundTrip(monthlyRate) ==
  annualToMonthlyCompound[monthlyToAnnualCompound[monthlyRate]]

InitRoundTrip ==
  /\ params = initialParams
  /\ results = <<>>
  /\ effectPending = TRUE
  /\ ratesSource = "api"
  /\ callRet = NoCall
  /\ InitRates /\ InitPage /\ InitPdf
  /\ \/ \E a \in AnnualRateChoices : callArg = [fn |-> "annualRoundTrip", rate |-> a]
     \/ \E m \in MonthlyRateChoices : callArg = [fn |-> "monthlyRoundTrip", rate |-> m]

CallAnnualRoundTrip ==
  /\ callArg.fn = "annualRoundTrip"
  /\ callRet = NoCall
  /\ callRet' = [fn |-> "annualRoundTrip",
                 monthly |-> annualToMonthlyCompound[callArg.rate],
                 value |-> AnnualRoundTrip(callArg.rate)]
  /\ UNCHANGED <<params, results, effectPending, ratesSource, callArg>>
  /\ UNCHANGED <<ratesVars, pageVars, pdfVars>>

CallMonthlyRoundTrip ==
  /\ callArg.fn = "monthlyRoundTrip"
  /\ callRet = NoCall
  /\ callRet' = [fn |-> "monthlyRoundTrip",
                 annual |-> monthlyToAnnualCompound[callArg.rate],
                 value |-> MonthlyRoundTrip(callArg.rate)]
  /\ UNCHANGED <<params, results, effectPending, ratesSource, callArg>>
  /\ UNCHANGED <<ratesVars, pageVars, pdfVars>>

NextRoundTrip == CallAnnualRoundTrip \/ CallMonthlyRoundTrip

SpecRoundTrip == InitRoundTrip /\ [][NextRoundTrip]_vars

(***************************************************************************)
(* fetchEconomicRates (App.tsx 568-643), invoked by the effect of the      *)
(* mount (645-648) and by a click on the status of the rates (1467), with  *)
(* two fields of the form edited meanwhile.  An invocation that has not    *)
(* finished is an element of fetches: the await it is suspended on and the *)
(* locals it has assigned,                                                 *)
(*   "cdiFetch"  : fetch of the daily CDI (591)                            *)
(*   "ipcaFetch" : fetch of the IPCA (596), cdiOk is cdiResponse.ok        *)
(*   "cdiJson"   : cdiResponse.json() (601)                                *)
(*   "ipcaJson"  : ipcaResponse.json() (602), cdiData is the CDI series    *)
(* The series are the arrays of the values the API answers with, each      *)
(* value a percentage.                                                     *)
(***************************************************************************)
\* The invocations of fetchEconomicRates in flight at a time.
MaxFetches == 2

CdiDataChoices == {<<>>, <<55131>>}
IpcaDataChoices == {<<>>, <<4680000>>}

Suspended(pc, cdiOk, cdiData) == [pc |-> pc, cdiOk |-> cdiOk, cdiData |-> cdiData]

AtCdiFetch == Suspended("cdiFetch", FALSE, <<>>)
AtIpcaFetch(cdiOk) == Suspended("ipcaFetch", cdiOk, <<>>)
AtCdiJson == Suspended("cdiJson", TRUE, <<>>)
AtIpcaJson(cdiData) == Suspended("ipcaJson", TRUE, cdiData)

\* App after the effects of the mount have run (645-652): the rates are
\* being fetched and the results of the initial params are computed.
InitFetching ==
  /\ params = initialParams
  /\ results = calculateSimulations(initialParams)
  /\ effectPending = FALSE
  /\ ratesSource = "api"
  /\ callArg = NoCall
  /\ callRet = NoCall
  /\ loadingRates = TRUE
  /\ ratesError = "null"
  /\ fetches = SetToBag({AtCdiFetch})
  /\ InitPage /\ InitPdf

\* parseFloat(latestCDIAnnual.toFixed(2)), latestCDIAnnual being
\* (Math.pow(1 + latestCDIDaily / 100, 252) - 1) * 100
roundedCDIAnnual(latestCDIDaily) ==
  Let((MathPow[SCALE + DivBy[latestCDIDaily, 100], 252] - SCALE) * 100,
      LAMBDA latestCDIAnnual : DivBy[latestCDIAnnual, SCALE \div 100] * (SCALE \div 100))

\* The two updates written on the params of the first render instead of
\* the params they find.
UpdatedParamsOfFirstRender(prev, cdiData, ipcaData) ==
  LET withCdi == IF Len(cdiData) > 0
                 THEN [initialParams EXCEPT !.cdiAnnual = roundedCDIAnnual(cdiData[Len(cdiData)])]
                 ELSE prev
  IN  IF Len(ipcaData) > 0
      THEN [initialParams EXCEPT !.cdiAnnual = withCdi.cdiAnnual,
                                 !.ipcaAnnual = ipcaData[Len(ipcaData)]]
      ELSE withCdi

\* params after setParams(prev => ({ ...prev, cdiAnnual })) and
\* setParams(prev => ({ ...prev, ipcaAnnual })), each if its series has a
\* value (607-622).
UpdatedParams(prev, cdiData, ipcaData) ==
  LET withCdi == IF Len(cdiData) > 0
                 THEN [prev EXCEPT !.cdiAnnual = roundedCDIAnnual(cdiData[Len(cdiData)])]
                 ELSE prev
  IN  IF Len(ipcaData) > 0
      THEN [withCdi EXCEPT !.ipcaAnnual = ipcaData[Len(ipcaData)]]
      ELSE withCdi

\* fetchEconomicRates up to its first await (568-591), on a click.
fetchEconomicRates ==
  /\ ~effectPending
  /\ BagCardinality(fetches) < MaxFetches
  /\ loadingRates' = TRUE
  /\ ratesError' = "null"
  /\ fetches' = fetches (+) SetToBag({AtCdiFetch})
  /\ UNCHANGED <<params, results, effectPending, ratesSource, callArg, callRet>>
  /\ UNCHANGED <<pageVars, pdfVars>>

\* fetch of the CDI resolves (591-596).
CdiFetched ==
  \E ok \in BOOLEAN :
    /\ BagIn(AtCdiFetch, fetches)
    /\ fetches' = (fetches (-) SetToBag({AtCdiFetch})) (+) SetToBag({AtIpcaFetch(ok)})
    /\ UNCHANGED <<params, results, effectPending, ratesSource, callArg, callRet>>
    /\ UNCHANGED <<loadingRates, ratesError, pageVars, pdfVars>>

\* fetch of the IPCA resolves (596-601, 634-642): with both responses ok
\* the first body is read, and if not the invocation ends with an error.
IpcaFetched ==
  \E cdiOk \in BOOLEAN, ok \in BOOLEAN :
    /\ BagIn(AtIpcaFetch(cdiOk), fetches)
    /\ IF cdiOk /\ ok
       THEN /\ fetches' = (fetches (-) SetToBag({AtIpcaFetch(cdiOk)})) (+) SetToBag({AtCdiJson})
            /\ UNCHANGED <<loadingRates, ratesError>>
       ELSE /\ ~effectPending
            /\ fetches' = fetches (-) SetToBag({AtIpcaFetch(cdiOk)})
            /\ ratesError' = "Erro ao conectar com API do Banco Central"
            /\ loadingRates' = FALSE
    /\ UNCHANGED <<params, results, effectPending, ratesSource, callArg, callRet>>
    /\ UNCHANGED <<pageVars, pdfVars>>

\* cdiResponse.json() resolves (601-602).
CdiParsed ==
  \E cdiData \in CdiDataChoices :
    /\ BagIn(AtCdiJson, fetches)
    /\ fetches' = (fetches (-) SetToBag({AtCdiJson})) (+) SetToBag({AtIpcaJson(cdiData)})
    /\ UNCHANGED <<params, results, effectPending, ratesSource, callArg, callRet>>
    /\ UNCHANGED <<loadingRates, ratesError, pageVars, pdfVars>>

\* The completion that leaves the effect on [params] unscheduled.
IpcaParsedUnscheduled ==
  \E cdiData \in CdiDataChoices, ipcaData \in IpcaDataChoices :
    /\ ~effectPending
    /\ BagIn(AtIpcaJson(cdiData), fetches)
    /\ fetches' = fetches (-) SetToBag({AtIpcaJson(cdiData)})
    /\ params' = UpdatedParams(params, cdiData, ipcaData)
    /\ IF Len(cdiData) = 0 /\ Len(ipcaData) = 0
       THEN /\ ratesError' = "Nao foi possivel obter dados recentes do BCB"
            /\ UNCHANGED ratesSource
       ELSE /\ ratesSource' = "api"
            /\ UNCHANGED ratesError
    /\ loadingRates' = FALSE
    /\ UNCHANGED <<results, effectPending, callArg, callRet, pageVars, pdfVars>>

\* ipcaResponse.json() resolves (602-633, 641-642): the params are updated
\* from the series that have a value, which schedules the effect on
\* [params], and the invocation ends.
IpcaParsed ==
  \E cdiData \in CdiDataChoices, ipcaData \in IpcaDataChoices :
    /\ ~effectPending
    /\ BagIn(AtIpcaJson(cdiData), fetches)
    /\ fetches' = fetches (-) SetToBag({AtIpcaJson(cdiData)})
    /\ params' = UpdatedParams(params, cdiData, ipcaData)
    /\ IF Len(cdiData) = 0 /\ Len(ipcaData) = 0
       THEN /\ ratesError' = "Nao foi possivel obter dados recentes do BCB"
            /\ UNCHANGED <<ratesSource, effectPending>>
       ELSE /\ ratesSource' = "api"
            /\ effectPending' = TRUE
            /\ UNCHANGED ratesError
    /\ loadingRates' = FALSE
    /\ UNCHANGED <<results, callArg, callRet, pageVars, pdfVars>>

\* fetch or json() rejects (635-642): the catch block and the finally block.
FetchThrows ==
  \E f \in BagToSet(fetches) :
    /\ ~effectPending
    /\ fetches' = fetches (-) SetToBag({f})
    /\ ratesError' = "Erro ao buscar taxas online"
    /\ loadingRates' = FALSE
    /\ UNCHANGED <<params, results, effectPending, ratesSource, callArg, callRet>>
    /\ UNCHANGED <<pageVars, pdfVars>>

NextRates ==
  \/ SetCdiAnnual
  \/ ToggleGlobalPayoutMonthly
  \/ RecalculateEffect
  \/ fetchEconomicRates
  \/ CdiFetched
  \/ IpcaFetched
  \/ CdiParsed
  \/ IpcaParsed
  \/ FetchThrows

SpecRates == InitFetching /\ [][NextRates]_vars

(***************************************************************************)
(* The monthly comparison table and its pagination (App.tsx 1830-2060),    *)
(* with the two fields of the form the table depends on: the period and    *)
(* the mode.  A handler runs on the last render, where no effect is        *)
(* pending.                                                                *)
(***************************************************************************)
ViewChoices == {"cards", "chart", "table"}
MonthsPerPageChoices == {12, 24, 36, 48, 60}

\* The table is rendered (1830).
TableShown ==
  /\ activeView = "table"
  /\ Len(results) > 0
  /\ Len(results[1].monthlyDetails) > 0

\* The pagination controls are rendered (1987).
ControlsShown == TableShown /\ params.months > monthsPerPage

\* Math.ceil(a / b) for whole a >= 0, b > 0
MathCeil(a, b) == (a + b - 1) \div b

MathMin(a, b) == IF a <= b THEN a ELSE b
MathMax(a, b) == IF a >= b THEN a ELSE b

\* onClick={() => setActiveView(view)} (1106)
SetActiveView ==
  \E view \in ViewChoices :
    /\ ~effectPending
    /\ activeView' = view
    /\ UNCHANGED <<params, results, effectPending, ratesSource, callArg, callRet>>
    /\ UNCHANGED <<monthlyTablePage, monthsPerPage, ratesVars, pdfVars>>

\* The select of the months per page (2001-2004).
SetMonthsPerPage ==
  \E v \in MonthsPerPageChoices :
    /\ ~effectPending
    /\ ControlsShown
    /\ monthsPerPage' = v
    /\ monthlyTablePage' = 0
    /\ UNCHANGED <<params, results, effectPending, ratesSource, callArg, callRet>>
    /\ UNCHANGED <<activeView, ratesVars, pdfVars>>

\* The button of the previous page (2025-2026).
PreviousPage ==
  /\ ~effectPending
  /\ ControlsShown
  /\ ~(monthlyTablePage = 0)
  /\ monthlyTablePage' = MathMax(0, monthlyTablePage - 1)
  /\ UNCHANGED <<params, results, effectPending, ratesSource, callArg, callRet>>
  /\ UNCHANGED <<activeView, monthsPerPage, ratesVars, pdfVars>>

\* The button of the next page (2047-2048).
NextPage ==
  /\ ~effectPending
  /\ ControlsShown
  /\ ~((monthlyTablePage + 1) * monthsPerPage >= params.months)
  /\ monthlyTablePage' =
       MathMin(MathCeil(params.months, monthsPerPage) - 1, monthlyTablePage + 1)
  /\ UNCHANGED <<params, results, effectPending, ratesSource, callArg, callRet>>
  /\ UNCHANGED <<activeView, monthsPerPage, ratesVars, pdfVars>>

NextTable ==
  \/ SetMonths
  \/ ToggleGlobalPayoutMonthly
  \/ RecalculateEffect
  \/ SetActiveView
  \/ SetMonthsPerPage
  \/ PreviousPage
  \/ NextPage

SpecPage == Init /\ [][NextTable]_vars

(***************************************************************************)
(* The PDF report (App.tsx 946-1020, 1126, 2457-2575).  An invocation of   *)
(* generatePDF that has started is an element of pdfRuns, at the await it  *)
(* is suspended on:                                                        *)
(*   "timer"  : the timeout of 2 s (959)                                   *)
(*   "header" : html2canvas of the first page of the report (994)          *)
(*   "charts" : html2canvas of the second page (999)                       *)
(* The button of generatePDF is disabled in the renders where              *)
(* generatingPdf is true; the model lets the handler be invoked there as   *)
(* well, where its own guard (953) is what keeps it from starting.         *)
(***************************************************************************)
\* The invocations of generatePDF in progress at a time the model follows.
MaxPdfRuns == 2

PdfOptionKeys == {"includeCards", "includeChart", "includeTable"}

NoPdfOption ==
  ~pdfOptions.includeCards /\ ~pdfOptions.includeChart /\ ~pdfOptions.includeTable

\* onClick={() => setShowPdfModal(true)} (1126)
OpenPdfModal ==
  /\ ~effectPending
  /\ showPdfModal' = TRUE
  /\ UNCHANGED <<params, results, effectPending, ratesSource, callArg, callRet>>
  /\ UNCHANGED <<generatingPdf, isGeneratingReport, pdfOptions, pdfRuns>>
  /\ UNCHANGED <<ratesVars, pageVars>>

\* The button Cancelar (2536)
ClosePdfModal ==
  /\ ~effectPending
  /\ showPdfModal
  /\ showPdfModal' = FALSE
  /\ UNCHANGED <<params, results, effectPending, ratesSource, callArg, callRet>>
  /\ UNCHANGED <<generatingPdf, isGeneratingReport, pdfOptions, pdfRuns>>
  /\ UNCHANGED <<ratesVars, pageVars>>

\* A checkbox of the modal (2526)
SetPdfOption ==
  \E key \in PdfOptionKeys :
    /\ ~effectPending
    /\ showPdfModal
    /\ pdfOptions' = [pdfOptions EXCEPT ![key] = ~pdfOptions[key]]
    /\ UNCHANGED <<params, results, effectPending, ratesSource, callArg, callRet>>
    /\ UNCHANGED <<generatingPdf, isGeneratingReport, showPdfModal, pdfRuns>>
    /\ UNCHANGED <<ratesVars, pageVars>>

\* generatePDF without its guard.
generatePDFUnguarded ==
  /\ ~effectPending
  /\ showPdfModal
  /\ ~NoPdfOption
  /\ BagCardinality(pdfRuns) < MaxPdfRuns
  /\ generatingPdf' = TRUE
  /\ isGeneratingReport' = TRUE
  /\ pdfRuns' = pdfRuns (+) SetToBag({"timer"})
  /\ callRet' = [fn |-> "generatePDF", value |-> "started"]
  /\ UNCHANGED <<params, results, effectPending, ratesSource, callArg>>
  /\ UNCHANGED <<showPdfModal, pdfOptions, ratesVars, pageVars>>

\* generatePDF up to its first await (952-959), invoked from the button of
\* the modal (2555-2556).  callRet tells what the invocation did.
generatePDF ==
  /\ ~effectPending
  /\ showPdfModal
  /\ ~NoPdfOption
  /\ IF generatingPdf
     THEN /\ callRet' = [fn |-> "generatePDF", value |-> "returned"]
          /\ UNCHANGED <<generatingPdf, isGeneratingReport, pdfRuns>>
     ELSE /\ BagCardinality(pdfRuns) < MaxPdfRuns
          /\ generatingPdf' = TRUE
          /\ isGeneratingReport' = TRUE
          /\ pdfRuns' = pdfRuns (+) SetToBag({"timer"})
          /\ callRet' = [fn |-> "generatePDF", value |-> "started"]
  /\ UNCHANGED <<params, results, effectPending, ratesSource, callArg>>
  /\ UNCHANGED <<showPdfModal, pdfOptions, ratesVars, pageVars>>

\* The end of a generation that got to window.open (1002-1012, 1016-1019).
PdfDone(pc) ==
  /\ pdfRuns' = pdfRuns (-) SetToBag({pc})
  /\ showPdfModal' = FALSE
  /\ generatingPdf' = FALSE
  /\ isGeneratingReport' = FALSE

\* The invocation suspended on pc goes on to the await of next if the
\* section of the report is rendered (993, 998), and to its end if not.
PdfAdvance(pc, next) ==
  /\ ~effectPending
  /\ BagIn(pc, pdfRuns)
  /\ IF isGeneratingReport
     THEN /\ pdfRuns' = (pdfRuns (-) SetToBag({pc})) (+) SetToBag({next})
          /\ UNCHANGED <<generatingPdf, isGeneratingReport, showPdfModal>>
     ELSE PdfDone(pc)
  /\ UNCHANGED <<params, results, effectPending, ratesSource, callArg, callRet>>
  /\ UNCHANGED <<pdfOptions, ratesVars, pageVars>>

\* The timeout fires: new jsPDF and the first section (959-995).
PdfTimerFires == PdfAdvance("timer", "header")

\* html2canvas of the first section resolves: the second section (996-1000).
PdfHeaderCaptured == PdfAdvance("header", "charts")

\* html2canvas of the second section resolves: the PDF is opened (1002-1012)
\* and the finally block runs (1016-1019).
PdfChartsCaptured ==
  /\ ~effectPending
  /\ BagIn("charts", pdfRuns)
  /\ PdfDone("charts")
  /\ UNCHANGED <<params, results, effectPending, ratesSource, callArg, callRet>>
  /\ UNCHANGED <<pdfOptions, ratesVars, pageVars>>

\* new jsPDF, html2canvas, addImage or window.open throws: the catch block
\* and the finally block (1013-1019).
PdfFails ==
  \E pc \in {"timer", "header", "charts"} :
    /\ ~effectPending
    /\ BagIn(pc, pdfRuns)
    /\ pdfRuns' = pdfRuns (-) SetToBag({pc})
    /\ generatingPdf' = FALSE
    /\ isGeneratingReport' = FALSE
    /\ UNCHANGED <<params, results, effectPending, ratesSource, callArg, callRet>>
    /\ UNCHANGED <<showPdfModal, pdfOptions, ratesVars, pageVars>>

NextPdf ==
  \/ RecalculateEffect
  \/ OpenPdfModal
  \/ ClosePdfModal
  \/ SetPdfOption
  \/ generatePDF
  \/ PdfTimerFires
  \/ PdfHeaderCaptured
  \/ PdfChartsCaptured
  \/ PdfFails

SpecPdf == Init /\ [][NextPdf]_vars

(***************************************************************************)
(* calculateSimulations (App.tsx 66-480) applied to params with a          *)
(* principal of 0 or a period of 0 months, and to params with neither.     *)
(***************************************************************************)
DegeneratePrincipalChoices == {0, 100000 * CENTS}
DegenerateMonthsChoices == {0, 1, 24}

DegenerateParams ==
  {[initialParams EXCEPT !.principal = pr, !.months = m, !.cdiAnnual = cdi,
                         !.fundRateMonthly = f, !.comparisonFund12MonthReturn = c,
                         !.globalPayoutMonthly = g] :
     pr \in DegeneratePrincipalChoices, m \in DegenerateMonthsChoices,
     cdi \in CdiChoices, f \in FundRateChoices, c \in ComparisonChoices,
     g \in BOOLEAN}

InitDegenerate ==
  /\ params = initialParams
  /\ results = <<>>
  /\ effectPending = TRUE
  /\ ratesSource = "api"
  /\ callRet = NoCall
  /\ InitRates /\ InitPage /\ InitPdf
  /\ \E p \in DegenerateParams : callArg = [fn |-> "calculateSimulations", params |-> p]

CallCalculateSimulations ==
  /\ callArg.fn = "calculateSimulations"
  /\ callRet = NoCall
  /\ callRet' = [fn |-> "calculateSimulations",
                 value |-> calculateSimulations(callArg.params)]
  /\ UNCHANGED <<params, results, effectPending, ratesSource, callArg>>
  /\ UNCHANGED <<ratesVars, pageVars, pdfVars>>

NextDegenerate == CallCalculateSimulations

SpecDegenerate == InitDegenerate /\ [][NextDegenerate]_vars

(***************************************************************************)
(* Properties.                                                             *)
(***************************************************************************)
\* The effect has run: results are the results of the params shown.
Settled == ~effectPending /\ results # <<>>

Near(x, y, tol) == Abs(x - y) <= tol

\* C1: getTaxRate(days) is 22.5% for days <= 180, 20.0% for 180 < days <=
\* 360, 17.5% for 360 < days <= 720 and 15.0% for days > 720; the six
\* boundary values 180, 181, 360, 361, 720, 721 give 22.5, 20.0, 20.0,
\* 17.5, 17.5, 15.0; and every input has a value.
C1_TaxBrackets ==
  callRet.fn = "getTaxRate" =>
    LET d == callArg.days
        v == callRet.value
    IN  /\ v \in {225000, 200000, 175000, 150000}
        /\ (d <= 180 => v = 225000)
        /\ (d > 180 /\ d <= 360 => v = 200000)
        /\ (d > 360 /\ d <= 720 => v = 175000)
        /\ (d > 720 => v = 150000)
        /\ (d = 180 => v = 225000)
        /\ (d = 181 => v = 200000)
        /\ (d = 360 => v = 200000)
        /\ (d = 361 => v = 175000)
        /\ (d = 720 => v = 175000)
        /\ (d = 721 => v = 150000)

C1_Witness ==
  callRet.fn = "getTaxRate" /\ callArg.days = 721 /\ callRet.value = 150000

\* C2: the list returned by calculateSimulations has exactly one entry with
\* isUserFund, and it is the first, whatever its rank by net total.
C2_UserFundFirst ==
  Settled =>
    /\ Cardinality({i \in 1..Len(results) : results[i].isUserFund}) = 1
    /\ results[1].isUserFund

\* The user fund is first although another instrument nets more.
C2_Witness ==
  /\ Settled
  /\ results[1].isUserFund
  /\ \E i \in 2..Len(results) : results[i].netTotal > results[1].netTotal

\* C3 as stated: the entries after the user fund are in strictly descending
\* order of net total.
C3_StrictlyDescending ==
  Settled =>
    \A i \in 2..(Len(results) - 1) : results[i].netTotal > results[i + 1].netTotal

\* C3: the entries after the user fund are in descending order of net
\* total, two entries of equal net total being adjacent.
C3_Descending ==
  Settled =>
    \A i \in 2..(Len(results) - 1) : results[i].netTotal >= results[i + 1].netTotal

\* The fixed-rate bond and the peer fund, given the same annual rate, tie.
C3_Witness ==
  /\ Settled
  /\ params.comparisonFund12MonthReturn = params.preFixedAnnual
  /\ \E i \in 2..(Len(results) - 1) :
       /\ results[i].netTotal = results[i + 1].netTotal
       /\ {results[i].name, results[i + 1].name} = {"Pre-fixado", "Fundos"}
  /\ \E i \in 2..(Len(results) - 1) : results[i].netTotal > results[i + 1].netTotal

\* C4: for a non-user result and a list with a user fund, getDifferential
\* returns value = netTotal - userFund.netTotal and percent = value /
\* userFund.netTotal * 100 (150,000 against 160,000: +10,000 and +6.67%);
\* it returns null for the user fund and when the list has no user fund.
C4_Differential ==
  callRet.fn = "getDifferential" =>
    LET r == callArg.result
        users == {i \in 1..Len(results) : results[i].isUserFund}
        ret == callRet.value
    IN  IF users = {} \/ r.isUserFund
        THEN ret = Null
        ELSE LET u == results[CHOOSE i \in users : TRUE]
             IN  /\ ret # Null
                 /\ ret.value = r.netTotal - u.netTotal
                 /\ ret.percent = Div[r.netTotal - u.netTotal, u.netTotal] * 100
                 /\ (u.netTotal = 150000 * CENTS /\ r.netTotal = 160000 * CENTS
                       => /\ ret.value = 10000 * CENTS
                          /\ Near(ret.percent, 6670000, 5000))

C4_Witness ==
  /\ callRet.fn = "getDifferential"
  /\ results = <<UserEntry(150000 * CENTS), OtherEntry(160000 * CENTS)>>
  /\ callArg.result = OtherEntry(160000 * CENTS)
  /\ callRet.value = [value |-> 10000 * CENTS, percent |-> 6666700]


\* The instruments the engine taxes and those it exempts.
IsExempt(r) == r.type \in {"lci", "poupanca"}
IsTaxed(r) == ~IsExempt(r)

\* The monthly rate of a result, as a fraction.
RateOf(r) == r.monthlyRateGross \div 100

RECURSIVE SumNetProfit(_, _)
SumNetProfit(details, m) ==
  IF m = 0 THEN 0 ELSE details[m].netProfit + SumNetProfit(details, m - 1)

\* C5: in distributed mode, for every instrument, the net profits of the
\* monthly details 1..N add up to netTotal - principal, and so does the
\* accumulated field of the detail of month N.
C5_CumulativeNetProfit ==
  Settled /\ params.globalPayoutMonthly =>
    \A i \in 1..Len(results) :
      LET r == results[i]
          N == params.months
      IN  /\ Len(r.monthlyDetails) = N
          /\ SumNetProfit(r.monthlyDetails, N) = r.netTotal - params.principal
          /\ r.monthlyDetails[N].accumulated = r.netTotal - params.principal

\* A taxed instrument paid out over months of more than one bracket.
C5_Witness ==
  /\ Settled /\ params.globalPayoutMonthly /\ params.months = 24
  /\ \E i \in 1..Len(results) :
       /\ IsTaxed(results[i])
       /\ results[i].taxAmount > 0
       /\ results[i].monthlyDetails[24].accumulated > 0
       /\ results[i].monthlyDetails[24].accumulated
            = results[i].netTotal - params.principal

\* C6: in distributed mode, in every month m of every instrument, the gross
\* profit is principal * monthly rate (the principal never grows), the tax
\* rate is getTaxRate(m * 30) for a taxed instrument and 0 otherwise, the
\* tax is gross profit * that rate and the net profit is gross profit - tax.
C6_MonthlyDetail ==
  Settled /\ params.globalPayoutMonthly =>
    \A i \in 1..Len(results) :
      \A m \in 1..Len(results[i].monthlyDetails) :
        LET r == results[i]
            d == r.monthlyDetails[m]
            rate == IF IsTaxed(r) THEN getTaxRate(m * 30) ELSE 0
        IN  /\ d.month = m
            /\ d.principal = params.principal
            /\ d.grossProfit = Mul[params.principal, RateOf(r)]
            /\ d.taxRate = rate * 100
            /\ d.taxAmount = Mul[d.grossProfit, rate]
            /\ d.netProfit = d.grossProfit - d.taxAmount

\* Month 1 is taxed at 22.5% and month 13 at 17.5% on the same gross profit.
C6_Witness ==
  /\ Settled /\ params.globalPayoutMonthly /\ params.months >= 13
  /\ \E i \in 1..Len(results) :
       LET ds == results[i].monthlyDetails
       IN  /\ ds[1].taxRate = 22500000
           /\ ds[13].taxRate = 17500000
           /\ ds[1].grossProfit = ds[13].grossProfit
           /\ ds[1].taxAmount > ds[13].taxAmount
  /\ \E i \in 1..Len(results) :
       IsExempt(results[i]) /\ results[i].monthlyDetails[13].taxRate = 0

\* The formulas of C7: gross total, single tax at the bracket of the whole
\* period, net total.
CompoundTotalsHold ==
  \A i \in 1..Len(results) :
    LET r == results[i]
        gross == Mul[params.principal, MathPow[SCALE + RateOf(r), params.months]]
        rate == getTaxRate(params.months * 30)
    IN  IsTaxed(r) =>
          /\ r.grossTotal = gross
          /\ r.taxRate = rate * 100
          /\ r.taxAmount = Mul[gross - params.principal, rate]
          /\ r.netTotal = r.grossTotal - r.taxAmount

\* The scenario of C7: P = 100000, N = 24, compound mode, 1.5% a month.
CompoundScenario ==
  /\ Settled /\ ~params.globalPayoutMonthly
  /\ params.principal = 100000 * CENTS
  /\ params.months = 24
  /\ params.fundRateMonthly = Pct(1, 5)

\* C7 as stated: the formulas, and the scenario nets about 135,625.30.
C7_CompoundNetTotal135625 ==
  Settled /\ ~params.globalPayoutMonthly =>
    /\ CompoundTotalsHold
    /\ (CompoundScenario =>
          /\ results[1].taxRate = 17500000
          /\ Near(results[1].netTotal, 13562530, 5 * CENTS))

\* C7: in compound mode, for every taxed instrument, grossTotal = principal
\* * (1 + r)^N, taxAmount = (grossTotal - principal) * getTaxRate(N * 30) and
\* netTotal = grossTotal - taxAmount; the scenario is taxed at 17.5% and
\* nets about 135,433.98.
C7_CompoundNetTotal ==
  Settled /\ ~params.globalPayoutMonthly =>
    /\ CompoundTotalsHold
    /\ (CompoundScenario =>
          /\ results[1].taxRate = 17500000
          /\ Near(results[1].netTotal, 13543398, 5 * CENTS))

C7_Witness ==
  /\ CompoundScenario
  /\ results[1].isUserFund
  /\ results[1].taxAmount > 0
  /\ results[1].netTotal = results[1].grossTotal - results[1].taxAmount
  /\ Near(results[1].grossTotal, 14295028, 5 * CENTS)

\* The annual rate of a monthly rate in the convention of the mode.
AnnualOfMode(monthlyRate) ==
  IF params.globalPayoutMonthly
  THEN monthlyToAnnualSimple[monthlyRate]
  ELSE monthlyToAnnualCompound[monthlyRate]

BackSolved(r) ==
  (MathRoot[Div[r.netTotal, params.principal], params.months] - SCALE) * 100

C10_GrossUp ==
  Settled =>
    \A i \in 1..Len(results) :
      LET r == results[i]
          rate == getTaxRate(params.months * 30)
      IN  IsExempt(r) =>
            /\ r.grossUp = Div[r.monthlyReturnPercentOfCDI, SCALE - rate]
            /\ (r.monthlyReturnPercentOfCDI = Pct(90, 0) /\ rate = 150000
                  => Near(r.grossUp, 105880000, 5000))

C10_Witness ==
  /\ Settled /\ params.months * 30 > 720
  /\ \E i \in 1..Len(results) :
       /\ results[i].type = "lci"
       /\ results[i].monthlyReturnPercentOfCDI = Pct(90, 0)
       /\ results[i].grossUp = 105882353
  /\ \E i \in 1..Len(results) :
       results[i].type = "poupanca" /\ results[i].grossUp > 0

\* C11: a result has a gross-up other than 0 only if it is the tax-exempt
\* bond or the savings account; the user fund, the CDB, the fixed-rate bond,
\* the inflation-linked bond and the peer fund report grossUp = 0.
C11_GrossUpOnlyExempt ==
  Settled =>
    \A i \in 1..Len(results) :
      LET r == results[i]
      IN  /\ (r.grossUp # 0 => r.name \in {"LCI/LCA", "Poupanca"})
          /\ (r.name \in {"PRE", "CDB", "Pre-fixado", "IPCA+", "Fundos"} => r.grossUp = 0)

\* All seven instruments are listed; only the two exempt ones have a gross-up.
C11_Witness ==
  /\ Settled /\ Len(results) = 7
  /\ \A i \in 1..Len(results) : IsExempt(results[i]) <=> results[i].grossUp > 0
  /\ \E i \in 1..Len(results) : results[i].name = "Fundos" /\ results[i].grossUp = 0

\* C12: in both modes the tax-exempt bond and the savings account have
\* taxAmount = 0, taxRate = 0 and netTotal = grossTotal, and each of their
\* monthly details has taxRate = 0 and taxAmount = 0.
C12_ExemptNeverTaxed ==
  Settled =>
    \A i \in 1..Len(results) :
      LET r == results[i]
      IN  r.name \in {"LCI/LCA", "Poupanca"} =>
            /\ r.taxAmount = 0
            /\ r.taxRate = 0
            /\ r.netTotal = r.grossTotal
            /\ \A m \in 1..Len(r.monthlyDetails) :
                  /\ r.monthlyDetails[m].taxRate = 0
                  /\ r.monthlyDetails[m].taxAmount = 0
                  /\ r.monthlyDetails[m].netProfit = r.monthlyDetails[m].grossProfit

\* Distributed mode over 24 months: both exempt instruments earn, untaxed,
\* next to a CDB that is taxed.
C12_Witness ==
  /\ Settled /\ params.globalPayoutMonthly /\ params.months = 24
  /\ \A n \in {"LCI/LCA", "Poupanca"} :
       \E i \in 1..Len(results) :
         /\ results[i].name = n
         /\ results[i].grossTotal > params.principal
         /\ results[i].netTotal = results[i].grossTotal
         /\ Len(results[i].monthlyDetails) = 24
         /\ results[i].monthlyDetails[24].taxAmount = 0
  /\ \E i \in 1..Len(results) :
       results[i].name = "CDB" /\ results[i].monthlyDetails[24].taxAmount > 0

\* The entries of the peer fund in the result list.
PeerEntries == {i \in 1..Len(results) : results[i].type = "comparison"}

\* C13: the peer fund is in the result list if and only if
\* comparisonFund12MonthReturn > 0 (it is absent for 0 and for a negative
\* return); when present it is there once and it is taxed with the bracket
\* of the period.
C13_PeerFundIffPositive ==
  Settled =>
    /\ (params.comparisonFund12MonthReturn > 0 => Cardinality(PeerEntries) = 1)
    /\ (params.comparisonFund12MonthReturn <= 0 => PeerEntries = {})
    /\ \A i \in PeerEntries :
         LET r == results[i]
         IN  /\ r.name = "Fundos"
             /\ r.taxRate = getTaxRate(params.months * 30) * 100
             /\ r.taxAmount > 0
             /\ r.netTotal = r.grossTotal - r.taxAmount

\* A positive return: the peer fund is listed among seven results, taxed.
C13_Witness ==
  /\ Settled /\ params.comparisonFund12MonthReturn > 0
  /\ Len(results) = 7
  /\ \E i \in PeerEntries : results[i].taxAmount > 0

\* A negative return: six results, none the peer fund.
C13_WitnessAbsent ==
  /\ Settled /\ params.comparisonFund12MonthReturn < 0
  /\ Len(results) = 6 /\ PeerEntries = {}

\* C14: for every instrument and both modes, evolutionData has N + 1
\* points, of months 0, 1, ..., N in this order, and the point of month 0
\* has value = principal; in distributed mode the value at month m is the
\* principal plus the net profit accumulated through m.
C14_EvolutionPoints ==
  Settled =>
    \A i \in 1..Len(results) :
      LET r == results[i]
          N == params.months
      IN  /\ Len(r.evolutionData) = N + 1
          /\ \A k \in 1..Len(r.evolutionData) : r.evolutionData[k].month = k - 1
          /\ r.evolutionData[1].value = params.principal
          /\ (params.globalPayoutMonthly =>
                \A m \in 1..N :
                  /\ r.evolutionData[m + 1].value
                       = params.principal + SumNetProfit(r.monthlyDetails, m)
                  /\ r.evolutionData[m + 1].value
                       = params.principal + r.monthlyDetails[m].accumulated)

\* Compound mode over 12 months: 13 points from the principal to the net
\* total.
C14_Witness ==
  /\ Settled /\ ~params.globalPayoutMonthly /\ params.months = 12
  /\ \A i \in 1..Len(results) :
       /\ Len(results[i].evolutionData) = 13
       /\ results[i].evolutionData[1] = [month |-> 0, value |-> params.principal]
       /\ results[i].evolutionData[13].month = 12
  /\ results[1].evolutionData[13].value > params.principal

\* Distributed mode over 12 months: the values grow by the net profit of
\* each month.
C14_WitnessDistributed ==
  /\ Settled /\ params.globalPayoutMonthly /\ params.months = 12
  /\ Len(results[1].evolutionData) = 13
  /\ results[1].evolutionData[13].value
       = params.principal + SumNetProfit(results[1].monthlyDetails, 12)
  /\ results[1].evolutionData[13].value > results[1].evolutionData[12].value

\* principal * (1 + r)^m for the monthly rate of result r.
GrossAt(r, m) == Mul[params.principal, MathPow[SCALE + RateOf(r), m]]

\* C15: in compound mode the evolution value of a taxed instrument at each
\* month m of 1..N is principal * (1 + r)^m less the tax on the profit so
\* far at the bracket of month m, getTaxRate(m * 30), not at the bracket of
\* month N; that of a tax-exempt instrument is principal * (1 + r)^m.
C15_CompoundEvolution ==
  Settled /\ ~params.globalPayoutMonthly =>
    \A i \in 1..Len(results) :
      \A m \in 1..params.months :
        LET r == results[i]
            gross == GrossAt(r, m)
        IN  r.evolutionData[m + 1].value
              = IF IsTaxed(r)
                THEN gross - Mul[gross - params.principal, getTaxRate(m * 30)]
                ELSE gross

\* 24 months: the point of month 6 of the user fund is taxed at 22.5%, which
\* is less than the bracket of month 24 would leave, and the last point is
\* the net total.
C15_Witness ==
  /\ Settled /\ ~params.globalPayoutMonthly /\ params.months = 24
  /\ LET r == results[1]
         gross == GrossAt(r, 6)
     IN  /\ r.evolutionData[7].value = gross - Mul[gross - params.principal, 225000]
         /\ r.evolutionData[7].value
              < gross - Mul[gross - params.principal, getTaxRate(24 * 30)]
         /\ r.evolutionData[25].value = r.netTotal
  /\ \E i \in 1..Len(results) :
       /\ IsExempt(results[i])
       /\ results[i].evolutionData[7].value = GrossAt(results[i], 6)
       /\ results[i].evolutionData[7].value > params.principal

\* C16: in compound mode every result has no monthly details; in
\* distributed mode every result has N of them, of months 1, ..., N in this
\* order.
C16_MonthlyDetailsCount ==
  Settled =>
    \A i \in 1..Len(results) :
      LET ds == results[i].monthlyDetails
      IN  IF params.globalPayoutMonthly
          THEN /\ Len(ds) = params.months
               /\ \A m \in 1..Len(ds) : ds[m].month = m
          ELSE ds = <<>>

\* Compound mode over the longest period: no details in any of the seven
\* results.
C16_Witness ==
  /\ Settled /\ ~params.globalPayoutMonthly /\ params.months = MaxMonths
  /\ Len(results) = 7
  /\ \A i \in 1..Len(results) : results[i].monthlyDetails = <<>>

\* Distributed mode over the longest period: one detail per month.
C16_WitnessDistributed ==
  /\ Settled /\ params.globalPayoutMonthly /\ params.months = MaxMonths
  /\ \A i \in 1..Len(results) :
       /\ Len(results[i].monthlyDetails) = MaxMonths
       /\ results[i].monthlyDetails[MaxMonths].month = MaxMonths

\* The instruments whose percentage of the CDI is computed.
ComputedPercentNames == {"PRE", "Pre-fixado", "IPCA+", "Fundos", "Poupanca"}

\* The annual gross rate handed to calculatePercentOfCDI for result r: the
\* compound annual rate of the user fund, the contracted annual rate of the
\* fixed-rate bond, the reported annual gross rate of the others.
AnnualGrossForCDI(r) ==
  IF r.name = "PRE" THEN monthlyToAnnualCompound[RateOf(r)]
  ELSE IF r.name = "Pre-fixado" THEN params.preFixedAnnual
  ELSE r.annualRateGross

\* C17: the percentage of the CDI of the user fund, the fixed-rate bond, the
\* inflation-linked bond, the peer fund and the savings account is their
\* annual gross rate / cdiAnnual * 100 when cdiAnnual is not 0, and 0 when
\* cdiAnnual = 0.
C17_PercentOfCDI ==
  Settled =>
    \A i \in 1..Len(results) :
      LET r == results[i]
      IN  r.name \in ComputedPercentNames =>
            r.monthlyReturnPercentOfCDI
              = IF params.cdiAnnual = 0 THEN 0
                ELSE Div[AnnualGrossForCDI(r), params.cdiAnnual] * 100

\* A CDI of 0: the five computed figures are 0 although the rates are not.
C17_Witness ==
  /\ Settled /\ params.cdiAnnual = 0
  /\ Cardinality({i \in 1..Len(results) : results[i].name \in ComputedPercentNames}) = 5
  /\ \A i \in 1..Len(results) :
       results[i].name \in ComputedPercentNames =>
         /\ results[i].monthlyReturnPercentOfCDI = 0
         /\ results[i].annualRateGross > 0

\* A CDI of 14.9%: the fixed-rate bond at 12.5% a year is at 83.89% of it.
C17_WitnessNonZero ==
  /\ Settled /\ params.cdiAnnual = Pct(14, 9)
  /\ \E i \in 1..Len(results) :
       /\ results[i].name = "Pre-fixado"
       /\ Near(results[i].monthlyReturnPercentOfCDI, 83892617, 100)

\* C18: the percentage of the CDI reported for the CDB and for the
\* tax-exempt bond is the contracted percentage entered, in both modes and
\* for every CDI, 0 included; it is not recomputed from the derived rates.
C18_ContractedPercent ==
  Settled =>
    \A i \in 1..Len(results) :
      LET r == results[i]
      IN  /\ (r.name = "CDB" => r.monthlyReturnPercentOfCDI = params.cdbPercentOfCDI)
          /\ (r.name = "LCI/LCA" => r.monthlyReturnPercentOfCDI = params.lciPercentOfCDI)

\* The CDB reports the 105% contracted, while its annual rate is another
\* percentage of the CDI.
C18_Witness ==
  /\ Settled /\ params.cdiAnnual > 0
  /\ \E i \in 1..Len(results) :
       /\ results[i].name = "CDB"
       /\ results[i].monthlyReturnPercentOfCDI = Pct(105, 0)
       /\ ~Near(Div[results[i].annualRateGross, params.cdiAnnual] * 100, Pct(105, 0), 100000)
  /\ \E i \in 1..Len(results) :
       /\ results[i].name = "LCI/LCA"
       /\ results[i].monthlyReturnPercentOfCDI = Pct(90, 0)

\* A CDI of 0: the contracted percentages are reported all the same.
C18_WitnessZero ==
  /\ Settled /\ params.cdiAnnual = 0
  /\ \E i \in 1..Len(results) :
       /\ results[i].name = "CDB"
       /\ results[i].monthlyReturnPercentOfCDI = Pct(105, 0)
       /\ results[i].annualRateGross = 0

\* The params shown, with the other accrual mode.
OtherMode == [params EXCEPT !.globalPayoutMonthly = ~params.globalPayoutMonthly]

\* C19: in both modes the percentage of the CDI of the user fund is computed
\* from its compound annual gross rate, (1 + monthly)^12 - 1, so that it is
\* the same in the other mode for the same fundRateMonthly and cdiAnnual,
\* while the annual gross rate reported differs between the modes.
C19_FundPercentModeIndependent ==
  Settled =>
    LET r == results[1]
        other == fundSimulation(OtherMode)
    IN  /\ r.isUserFund
        /\ r.monthlyReturnPercentOfCDI
             = IF params.cdiAnnual = 0 THEN 0
               ELSE Div[monthlyToAnnualCompound[RateOf(r)], params.cdiAnnual] * 100
        /\ r.monthlyReturnPercentOfCDI = other.monthlyReturnPercentOfCDI
        /\ (params.fundRateMonthly > 0 => r.annualRateGross # other.annualRateGross)

\* Distributed mode: 1.5% a month is reported as 18% a year, and compared
\* with the CDI as 19.56% a year, about 131.3% of a CDI of 14.9%.
C19_Witness ==
  /\ Settled /\ params.globalPayoutMonthly
  /\ params.fundRateMonthly = Pct(1, 5) /\ params.cdiAnnual = Pct(14, 9)
  /\ results[1].annualRateGross = Pct(18, 0)
  /\ Near(results[1].monthlyReturnPercentOfCDI, 131290000, 50000)
  /\ ~Near(results[1].monthlyReturnPercentOfCDI,
           Div[results[1].annualRateGross, params.cdiAnnual] * 100, 1000000)

\* A step that invokes calculateSimulations: the pending effect runs.
Invocation == effectPending /\ ~effectPending'

RECURSIVE SumTaxAmount(_, _)
SumTaxAmount(details, m) ==
  IF m = 0 THEN 0 ELSE details[m].taxAmount + SumTaxAmount(details, m - 1)

\* C24: for every result, in both modes, netTotal = grossTotal - taxAmount;
\* in distributed mode taxAmount is the sum of the tax amounts of the
\* monthly details.
C24_NetIsGrossLessTax ==
  Settled =>
    \A i \in 1..Len(results) :
      LET r == results[i]
      IN  /\ r.netTotal = r.grossTotal - r.taxAmount
          /\ (params.globalPayoutMonthly =>
                r.taxAmount = SumTaxAmount(r.monthlyDetails, Len(r.monthlyDetails)))

\* Distributed mode over 24 months: the tax of the user fund, summed over
\* three brackets, is what separates its gross and net totals.
C24_Witness ==
  /\ Settled /\ params.globalPayoutMonthly /\ params.months = 24
  /\ results[1].taxAmount > 0
  /\ results[1].taxAmount = SumTaxAmount(results[1].monthlyDetails, 24)
  /\ results[1].grossTotal - results[1].netTotal = results[1].taxAmount
  /\ results[1].monthlyDetails[1].taxAmount > results[1].monthlyDetails[24].taxAmount

\* C25: for every result, in both modes, the last evolution point, of month
\* N, has the net total of the result as its value.
C25_LastPointIsNetTotal ==
  Settled =>
    \A i \in 1..Len(results) :
      LET r == results[i]
          last == r.evolutionData[Len(r.evolutionData)]
      IN  /\ last.month = params.months
          /\ last.value = r.netTotal

\* Compound mode over 24 months: the point of month 12 of the user fund is
\* taxed at 20%, the last one at 17.5%, and the last one is the net total.
C25_Witness ==
  /\ Settled /\ ~params.globalPayoutMonthly /\ params.months = 24
  /\ LET r == results[1]
     IN  /\ r.taxAmount > 0
         /\ r.evolutionData[25] = [month |-> 24, value |-> r.netTotal]
         /\ r.evolutionData[13].value
              = GrossAt(r, 12) - Mul[GrossAt(r, 12) - params.principal, 200000]
         /\ r.taxRate = 17500000

\* (taxRate / 100) * (grossTotal - principal): the tax of the whole profit
\* at the bracket of the period reported by result r.
TaxAtPeriodBracket(r) == Mul[r.grossTotal - params.principal, r.taxRate \div 100]

\* The rounding of the monthly tax amounts: half a cent a month at most.
TaxTolerance == params.months

\* Every month of 1..N is in the bracket of month N.
OneBracket ==
  \A m \in 1..params.months : getTaxRate(m * 30) = getTaxRate(params.months * 30)

\* C26 as stated: for every taxed instrument of monthly rate >= 0, taxAmount
\* is at least the tax at the bracket of the period; they are equal in
\* compound mode, and in distributed mode only when every month is in the
\* bracket of month N.
C26_TaxEqualOnlyInOneBracket ==
  Settled =>
    \A i \in 1..Len(results) :
      LET r == results[i]
      IN  IsTaxed(r) /\ RateOf(r) >= 0 =>
            /\ r.taxAmount + TaxTolerance >= TaxAtPeriodBracket(r)
            /\ (~params.globalPayoutMonthly => r.taxAmount = TaxAtPeriodBracket(r))
            /\ (params.globalPayoutMonthly
                   /\ Near(r.taxAmount, TaxAtPeriodBracket(r), TaxTolerance)
                  => OneBracket)

\* C26: for every taxed instrument of monthly rate >= 0, taxAmount is at
\* least the tax at the bracket of the period; they are equal in compound
\* mode; in distributed mode, for a rate > 0, they are equal exactly when
\* every month is in the bracket of month N, and for a rate of 0 both are 0.
C26_TaxAtLeastPeriodBracket ==
  Settled =>
    \A i \in 1..Len(results) :
      LET r == results[i]
      IN  IsTaxed(r) /\ RateOf(r) >= 0 =>
            /\ r.taxAmount + TaxTolerance >= TaxAtPeriodBracket(r)
            /\ (~params.globalPayoutMonthly => r.taxAmount = TaxAtPeriodBracket(r))
            /\ (params.globalPayoutMonthly /\ RateOf(r) > 0 =>
                  (Near(r.taxAmount, TaxAtPeriodBracket(r), TaxTolerance) <=> OneBracket))
            /\ (RateOf(r) = 0 => r.taxAmount = 0 /\ TaxAtPeriodBracket(r) = 0)

\* Distributed mode over 24 months: the user fund pays more than 17.5% of
\* its profit, and a CDB on a CDI of 0 pays 0, which is 17.5% of its profit.
C26_Witness ==
  /\ Settled /\ params.globalPayoutMonthly /\ params.months = 24
  /\ ~OneBracket
  /\ results[1].taxRate = 17500000
  /\ results[1].taxAmount > TaxAtPeriodBracket(results[1]) + TaxTolerance
  /\ \E i \in 1..Len(results) :
       /\ results[i].name = "CDB"
       /\ RateOf(results[i]) = 0
       /\ results[i].taxAmount = TaxAtPeriodBracket(results[i])

\* Distributed mode over 6 months: every month is taxed at 22.5%.
C26_WitnessOneBracket ==
  /\ Settled /\ params.globalPayoutMonthly /\ params.months = 6
  /\ OneBracket
  /\ results[1].taxAmount > 0
  /\ Near(results[1].taxAmount, TaxAtPeriodBracket(results[1]), TaxTolerance)

\* The resolution of the model carried through a twelfth power: 0.01 of a
\* percentage point on an annual rate, 0.000005 on a monthly rate.
AnnualTolerance == SCALE \div 100
MonthlyTolerance == SCALE \div 200000

\* C22: annualToMonthlyCompound and monthlyToAnnualCompound are inverse to
\* each other: for an annual rate a > -100,
\* monthlyToAnnualCompound(annualToMonthlyCompound(a)) is a within
\* tolerance, for a = 12 in particular, and for a monthly rate m,
\* annualToMonthlyCompound(monthlyToAnnualCompound(m)) is m within tolerance.
C22_RoundTrip ==
  /\ (callRet.fn = "annualRoundTrip" =>
        /\ callArg.rate > -100 * SCALE
        /\ Near(callRet.value, callArg.rate, AnnualTolerance)
        /\ (callArg.rate = Pct(12, 0) => Near(callRet.value, Pct(12, 0), AnnualTolerance)))
  /\ (callRet.fn = "monthlyRoundTrip" =>
        Near(callRet.value, callArg.rate, MonthlyTolerance))

\* 12% a year is 0.9489% a month, which is 12% a year.
C22_Witness ==
  /\ callRet.fn = "annualRoundTrip"
  /\ callArg.rate = Pct(12, 0)
  /\ Near(callRet.monthly, 9489, 2)
  /\ Near(callRet.value, Pct(12, 0), AnnualTolerance)

(***************************************************************************)
(* C21.  calculateSimulations returns for every params, a principal of 0   *)
(* and a period of 0 months included: a complete list of results, each     *)
(* with all its fields.  With a principal of 0 or 0 months the net monthly *)
(* and annual rates of the taxed instruments, which are solved back from   *)
(* netTotal / principal and 1 / months, are NaN or infinite; with neither  *)
(* every number of the list is finite.                                     *)
(***************************************************************************)
ResultFields ==
  {"type", "name", "grossTotal", "taxAmount", "taxRate", "netTotal",
   "netReturnPercent", "monthlyReturnPercentOfCDI", "monthlyPayoutGross",
   "monthlyPayoutNet", "monthlyRateGross", "monthlyRateNet", "annualRateGross",
   "annualRateNet", "grossUp", "isUserFund", "monthlyDetails", "evolutionData"}

NumberFields ==
  {"grossTotal", "taxAmount", "taxRate", "netTotal", "netReturnPercent",
   "monthlyReturnPercentOfCDI", "monthlyPayoutGross", "monthlyPayoutNet",
   "monthlyRateGross", "monthlyRateNet", "annualRateGross", "annualRateNet",
   "grossUp"}

\* The instruments whose net rates are solved back from their net total.
NetRateSolved(r) == r.type \in {"fund", "cdb", "comparison"}

C21_NeverThrows ==
  callRet.fn = "calculateSimulations" =>
    LET p == callArg.params
        res == callRet.value
    IN  /\ Len(res) = IF p.comparisonFund12MonthReturn > 0 THEN 7 ELSE 6
        /\ \A i \in DOMAIN res :
             /\ DOMAIN res[i] = ResultFields
             /\ Len(res[i].evolutionData) = p.months + 1
             /\ IF p.principal = 0 \/ p.months = 0
                THEN NetRateSolved(res[i]) =>
                       /\ ~isFinite(res[i].monthlyRateNet)
                       /\ ~isFinite(res[i].annualRateNet)
                ELSE \A f \in NumberFields : isFinite(res[i][f])

\* calculateSimulations has returned for a principal of 0 and 0 months, and
\* the net monthly rate of the user fund is NaN.
C21_Witness ==
  /\ callRet.fn = "calculateSimulations"
  /\ callArg.params.principal = 0
  /\ callArg.params.months = 0
  /\ callRet.value[1].isUserFund
  /\ callRet.value[1].monthlyRateNet = NaN

\* calculateSimulations has returned for 0 months of a principal that is
\* not 0: Math.pow(1, Infinity) is NaN.
C21_WitnessNoMonths ==
  /\ callRet.fn = "calculateSimulations"
  /\ callArg.params.principal > 0
  /\ callArg.params.months = 0
  /\ \A i \in DOMAIN callRet.value :
       NetRateSolved(callRet.value[i]) => callRet.value[i].annualRateNet = NaN

(***************************************************************************)
(* C27.  The page of the monthly table is a page of the period shown:      *)
(* monthlyTablePage >= 0 and monthlyTablePage * monthsPerPage <            *)
(* params.months in every state, also after the period is shortened or the *)
(* months per page are changed on a later page.                            *)
(***************************************************************************)
C27_PageInRange ==
  /\ monthlyTablePage >= 0
  /\ monthlyTablePage * monthsPerPage < params.months

\* The table is shown on its second page.
C27_WitnessLaterPage == TableShown /\ monthlyTablePage = 1 /\ ~effectPending

\* The period was shortened on a later page: the table is shown and has no
\* row, and the controls that would change the page are not rendered.
C27_WitnessEmptyTable ==
  /\ TableShown
  /\ ~effectPending
  /\ monthlyTablePage * monthsPerPage >= params.months
  /\ ~ControlsShown

(***************************************************************************)
(* C28.  At most one generation of the PDF is in progress at any time; an  *)
(* invocation of generatePDF made while one is in progress returns and     *)
(* starts nothing; and when no generation is in progress any more, after   *)
(* a success or an error, generatingPdf and isGeneratingReport are false.  *)
(***************************************************************************)
C28_OneGeneration ==
  /\ [](BagCardinality(pdfRuns) <= 1)
  /\ [](pdfRuns = EmptyBag => ~generatingPdf /\ ~isGeneratingReport)
  /\ [][generatePDF /\ pdfRuns # EmptyBag =>
          pdfRuns' = pdfRuns /\ callRet'.value = "returned"]_vars

\* generatePDF was invoked while a generation was in progress.
C28_Witness ==
  /\ callRet = [fn |-> "generatePDF", value |-> "returned"]
  /\ pdfRuns # EmptyBag

\* A generation has started and ended, and the modal is shown.
C28_WitnessEnded ==
  /\ callRet = [fn |-> "generatePDF", value |-> "started"]
  /\ pdfRuns = EmptyBag
  /\ showPdfModal

(***************************************************************************)
(* C23.  In every state where the effect on [params] is not pending, after *)
(* any sequence of edits of the form, toggles of the mode and completions  *)
(* of the fetch of the rates, the results shown are                        *)
(* calculateSimulations of the params shown.                               *)
(***************************************************************************)
C23_ResultsOfCurrentParams ==
  ~effectPending => results = calculateSimulations(params)

\* The mode was toggled, the fetch of the rates has written both rates, and
\* the effect has run.
C23_Witness ==
  /\ ~effectPending
  /\ fetches = EmptyBag
  /\ ~params.globalPayoutMonthly
  /\ params.cdiAnnual = roundedCDIAnnual(55131)
  /\ params.ipcaAnnual = 4680000

(***************************************************************************)
(* C29.  loadingRates is true in every state where an invocation of        *)
(* fetchEconomicRates is in flight, also when the status of the rates is   *)
(* clicked before an earlier fetch has finished.                           *)
(***************************************************************************)
C29_LoadingWhileInFlight == fetches # EmptyBag => loadingRates

(***************************************************************************)
(* C30.  A step of an invocation of fetchEconomicRates changes no field of *)
(* params but cdiAnnual and ipcaAnnual: the other fields keep the values   *)
(* they have at that time, edits made during the fetch included.  An       *)
(* invocation that ends with an error message leaves params as they are.   *)
(***************************************************************************)
FetchedFields == {"cdiAnnual", "ipcaAnnual"}

C30_WitnessFailed ==
  /\ fetches = EmptyBag
  /\ ratesError = "Erro ao buscar taxas online"
  /\ params = [initialParams EXCEPT !.globalPayoutMonthly = FALSE]
====
